---------------------------- MODULE Spec2Model ----------------------------
(***************************************************************************)
(* The chat streaming engines of the dashboard page.                       *)
(*                                                                         *)
(*  - the single-stream engine (streamingChatRef, one AbortController):    *)
(*    specification Spec;                                                  *)
(*  - the multi-stream engine (activeStreamsRef keyed by chat id,          *)
(*    chatMessagesMap, generatingChats): specification SpecMulti.          *)
(*                                                                         *)
(* JavaScript is single-threaded: every action below is the code that runs *)
(* between two awaits of one handler.                                      *)
(***************************************************************************)
EXTENDS Integers, Sequences, FiniteSets, TLC

(***************************************************************************)
(* Bounds of the model.                                                    *)
(***************************************************************************)
MaxTurns == 2      \* invocations of handleSendMessage that pass the credit check
MaxEvents == 2     \* event lines the server writes to one response body
MaxLines == 2      \* the same, in the runs that follow one turn's stream
MaxChats == 2      \* conversations that exist (one is there from the start)
MaxSearches == 3   \* events of one stream in the runs of SpecSearch
MaxCredits == 3    \* the credit balance the client starts with

(***************************************************************************)
(* Values.  0 is null for chat ids, controller ids and message ids.        *)
(***************************************************************************)
NoStatus == [set |-> FALSE, canSkip |-> FALSE]

GENERIC == <<"Something went wrong internally. Please try again in a bit.">>

INTERRUPTED == <<"Response was interrupted during generation.">>

\* Message (components/Chat/ChatMessage): content is the text as the list of
\* pieces it was built from, so that concatenation is \o.
Msg(id, role, content, streaming) ==
  [id |-> id, role |-> role, content |-> content, isStreaming |-> streaming,
   searchHistory |-> <<>>, currentStatus |-> NoStatus]

\* One decoded SSE payload.  Every event has every field, unused ones at a
\* default, so that events of different types compare.
Ev(type, data, qi, status, tp, src, canSkip, hasSH) ==
  [type |-> type, data |-> data, iteration |-> 0, queryIndex |-> qi,
   status |-> status, textPreview |-> tp, sources |-> src,
   canSkip |-> canSkip, hasSH |-> hasSH]

EvSession(sid) == Ev("session", sid, 0, "", "", 0, FALSE, FALSE)
EvStatus(canSkip) == Ev("status", "working", 0, "", "", 0, canSkip, FALSE)
EvSearch(qi, status, tp, src) == Ev("search", "query", qi, status, tp, src, FALSE, FALSE)
EvContent(delta) == Ev("content", delta, 0, "", "", 0, FALSE, FALSE)
EvDone(hasSH) == Ev("done", "", 0, "", "", 0, FALSE, hasSH)
EvError(msg) == Ev("error", msg, 0, "", "", 0, FALSE, FALSE)
\* a data line whose payload is not JSON
EvBad == Ev("bad", "garbage", 0, "", "", 0, FALSE, FALSE)

RAW == "raw backend failure text"

\* The search history a done event carries when it carries one.
ServerHistory ==
  << [query |-> "query", sources |-> 1, iteration |-> 0, queryIndex |-> 0,
      status |-> "searching", textPreview |-> "server"] >>

\* The events a server writes in the runs of the whole engine (Spec) ...
Events == { EvContent("a"), EvDone(FALSE) }

\* ... and in the runs that follow one turn's stream (SpecStream).
StreamEvents ==
  { EvStatus(TRUE), EvSearch(0, "searching", "p", 0), EvContent("a"),
    EvContent("b"), EvDone(FALSE), EvDone(TRUE), EvError(RAW), EvBad }

\* ... and in the runs that follow one turn's searches (SpecSearch): a query
\* that starts with a text preview, the same query completed with sources
\* and no preview, a second query, and done.
SearchEvents ==
  { EvSearch(0, "searching", "p", 0),
    Ev("search", "refined", 0, "complete", "", 1, FALSE, FALSE),
    EvSearch(1, "searching", "", 0),
    EvDone(FALSE) }

(***************************************************************************)
(* The wire.  A line "data: <json>\n" is three pieces: the marker with the *)
(* first half of the payload, the second half of the payload, the newline. *)
(* A network chunk is any run of pieces, so a chunk boundary can fall      *)
(* inside a line.                                                          *)
(***************************************************************************)
Encode(e) == << [k |-> "head", ev |-> e], [k |-> "tail", ev |-> e],
                [k |-> "nl", ev |-> EvBad] >>

NL == [k |-> "nl", ev |-> EvBad]

\* chunk.split('\n'): the pieces between newlines, the last run included
RECURSIVE SplitFrom(_, _)
SplitFrom(chunk, cur) ==
  IF chunk = <<>> THEN <<cur>>
  ELSE IF Head(chunk).k = "nl" THEN <<cur>> \o SplitFrom(Tail(chunk), <<>>)
  ELSE SplitFrom(Tail(chunk), Append(cur, Head(chunk)))

Split(chunk) == SplitFrom(chunk, <<>>)

\* line.startsWith('data: ')
StartsWithData(line) == Len(line) >= 1 /\ line[1].k = "head"

\* JSON.parse(line.slice(6)) returns a value: the payload is whole and is JSON
ParseOk(line) ==
  /\ Len(line) = 2
  /\ line[1].k = "head" /\ line[2].k = "tail"
  /\ line[1].ev = line[2].ev
  /\ line[1].ev.type # "bad"

Parsed(line) == line[1].ev


(***************************************************************************)
(* State of the single-stream engine (DashboardPage with streamingChatRef) *)
(***************************************************************************)
VARIABLES
  messages,               \* useState<Message[]>: the displayed list
  currentChatId,          \* useState: the conversation shown (0 = none)
  isLoading,              \* useState: disables ChatInput
  abortControllerRef,     \* useRef: the latest AbortController made (0 = none)
  aborted,                \* the controllers whose abort() has been called
  controllers,            \* how many AbortControllers have been made
  streamingChatRef,       \* useRef: the one streaming record
  sessionIdRef,           \* useRef: the session id for skip search
  saveError,              \* useState: the save-error toast
  showOutOfCreditsModal,  \* useState
  credits,                \* useCreditsContext().credits
  db,                     \* Firestore: chat id -> stored message list
  nChats,                 \* chats 1..nChats exist (the sidebar's list)
  turns,                  \* the invocations of handleSendMessage
  nTurns,                 \* how many invocations have passed the credit check
  pendingLoads,           \* handleSelectChat calls awaiting getChat
  skipSent                \* the sessionId of the last /api/skip-search request

svars == << messages, currentChatId, isLoading, abortControllerRef, aborted,
            controllers, streamingChatRef, sessionIdRef, saveError,
            showOutOfCreditsModal, credits, db, nChats, turns, nTurns,
            pendingLoads, skipSent >>

(***************************************************************************)
(* State of the multi-stream engine (DashboardPage with activeStreamsRef)  *)
(***************************************************************************)
VARIABLES
  chatMessagesMap,        \* useState<Record<string, Message[]>>
  generatingChats,        \* useState<Set<string>>
  activeStreamsRef,       \* useRef<Map<string, AbortController>>
  mountedRef,             \* useRef<boolean>
  currentChatIdM,         \* useState: the conversation shown (0 = none)
  pendingSaveChats,       \* useState<Set<string>>
  creditsM,               \* useCreditsContext().credits
  modalM,                 \* showOutOfCreditsModal
  abortedM,               \* the controllers whose abort() has been called
  dbM,                    \* Firestore: chat id -> stored message list
  nChatsM,                \* chats 1..nChatsM exist
  sessions,               \* the invocations of handleSendMessage
  nSessions,              \* how many invocations there have been
  pendingLoadsM,          \* handleSelectChat calls awaiting getChat
  savesInFlight,          \* the updateChat calls of the save effect, awaited
  updateChatCalls,        \* chat id -> updateChat calls the save effect made
  finishedTurns           \* chat id -> turns that asked for a save

mvars == << chatMessagesMap, generatingChats, activeStreamsRef, mountedRef,
            currentChatIdM, pendingSaveChats, creditsM, modalM, abortedM, dbM,
            nChatsM, sessions, nSessions, pendingLoadsM, savesInFlight,
            updateChatCalls, finishedTurns >>

\* what the save effect writes and what counts its calls
savevars == << savesInFlight, updateChatCalls, finishedTurns >>

(***************************************************************************)
(* State of the credits service (lib/creditsService): the credits field of *)
(* the user's document and the useCredits calls in progress                *)
(***************************************************************************)
VARIABLES
  userDoc,                \* Firestore: users/{uid}.credits
  creditsBefore,          \* users/{uid}.credits before the first call
  useCreditsCalls         \* the invocations of useCredits

cvars == << userDoc, creditsBefore, useCreditsCalls >>

(***************************************************************************)
(* State of handleDeleteChat of the multi-stream engine                    *)
(***************************************************************************)
VARIABLES
  pendingDeletes,         \* handleDeleteChat calls awaiting deleteChat
  deletedChats            \* the chats whose deleteChat resolved

dvars == << pendingDeletes, deletedChats >>

vars == << svars, mvars, cvars, dvars >>

Turns == 1 .. MaxTurns

Chats == 1 .. MaxChats

\* the cleared value of streamingChatRef
EmptyRef ==
  [chatId |-> 0, visibleChatId |-> 0, messages |-> <<>>,
   assistantMessageId |-> 0, accumulatedContent |-> <<>>,
   searchHistory |-> <<>>]

\* Date.now().toString() and (Date.now() + 1).toString() of invocation t
UserMessageId(t) == 2 * t - 1

AssistantMessageId(t) == 2 * t

\* The locals of one invocation of handleSendMessage, with its position (pc).
\* calls, show, sent, afterError and outcome record what the invocation did
\* and are read by no action: calls counts its updateChat calls, show is the
\* last list it passed (or would have passed) to setMessages, sent are the
\* deltas of the content events the server wrote, afterError is 1 once an
\* error event was decoded and 2 once a later event was applied.  When the
\* invocation returns its locals are gone: only chatId, calls and outcome
\* are kept.
IdleTurn ==
  [pc |-> "idle", chatId |-> 0, snapshot |-> <<>>, signal |-> 0,
   accumulatedContent |-> <<>>, currentSearchHistory |-> <<>>,
   receivedDone |-> FALSE, finalMessages |-> <<>>,
   wire |-> <<>>, emitted |-> 0, serverDone |-> FALSE,
   calls |-> 0, show |-> <<>>, sent |-> <<>>, afterError |-> 0,
   outcome |-> "none"]

\* { ...m, ...updates }: the fields updates has replace those of m
Spread(m, updates) ==
  LET Field(k) == IF k \in DOMAIN updates THEN updates[k] ELSE m[k]
  IN [id |-> Field("id"), role |-> Field("role"), content |-> Field("content"),
      isStreaming |-> Field("isStreaming"),
      searchHistory |-> Field("searchHistory"),
      currentStatus |-> Field("currentStatus")]

\* messages.map(m => m.id === id ? { ...m, ...updates } : m)
MapMessage(ms, id, updates) ==
  [i \in DOMAIN ms |-> IF ms[i].id = id THEN Spread(ms[i], updates) ELSE ms[i]]

\* history.map(entry => ({...entry, status: 'complete'}))
Complete(history) ==
  [i \in DOMAIN history |-> [history[i] EXCEPT !.status = "complete"]]

\* A findIndex that never finds the key; C21_NoDuplicateSearch tells it from
\* the findIndex of the source.
FindNothing(history, it, qi) == 0

\* currentSearchHistory.findIndex(s => s.iteration === it && s.queryIndex === qi),
\* 0 when there is none
FindIndex(history, it, qi) ==
  LET hits == {i \in DOMAIN history :
                 history[i].iteration = it /\ history[i].queryIndex = qi}
  IN IF hits = {} THEN 0 ELSE CHOOSE i \in hits : \A j \in hits : i <= j

\* A search branch that stores the event's entry as it came;
\* C20_UpsertKeepsPreview tells it from the branch of the source.
UpsertAsReceived(history, e) ==
  LET entry == [query |-> e.data, sources |-> e.sources,
                iteration |-> e.iteration, queryIndex |-> e.queryIndex,
                status |-> e.status, textPreview |-> e.textPreview]
      i == FindIndex(history, e.iteration, e.queryIndex)
  IN IF i > 0 THEN [history EXCEPT ![i] = entry] ELSE Append(history, entry)

\* the search branch: update the entry with the event's key or append one
Upsert(history, e) ==
  LET entry == [query |-> e.data, sources |-> e.sources,
                iteration |-> e.iteration, queryIndex |-> e.queryIndex,
                status |-> e.status, textPreview |-> e.textPreview]
      i == FindIndex(history, e.iteration, e.queryIndex)
  IN IF i > 0
       THEN [history EXCEPT ![i] =
               [entry EXCEPT !.textPreview =
                  IF entry.textPreview # "" THEN entry.textPreview
                  ELSE history[i].textPreview]]
       ELSE Append(history, entry)

(***************************************************************************)
(* The body of the reader loop for one decoded event.  s holds what the    *)
(* loop reads and writes: the ref, the displayed messages, sessionIdRef    *)
(* and the invocation's locals (a turn record).                            *)
(***************************************************************************)
\* if (streamingChatRef.current.visibleChatId === chatId) setMessages(ms)
Display(s, ref, ms) ==
  IF ref.visibleChatId = s.turn.chatId THEN ms ELSE s.messages

\* A status branch that also resets the content; C24_StatusAndContentFrame
\* tells it from the status branch of the source.
ApplyStatusResetting(s, e, aid) ==
  LET updates == [currentStatus |-> [set |-> TRUE, canSkip |-> e.canSkip],
                  content |-> <<>>]
      ms == MapMessage(s.ref.messages, aid, updates)
      ref == [s.ref EXCEPT !.messages = ms]
  IN [s EXCEPT !.ref = ref, !.messages = Display(s, ref, ms),
               !.turn.show = ms]

\* the status branch
ApplyStatus(s, e, aid) ==
  LET updates == [currentStatus |-> [set |-> TRUE, canSkip |-> e.canSkip]]
      ms == MapMessage(s.ref.messages, aid, updates)
      ref == [s.ref EXCEPT !.messages = ms]
  IN [s EXCEPT !.ref = ref, !.messages = Display(s, ref, ms),
               !.turn.show = ms]

ApplySearch(s, e, aid) ==
  LET history == Upsert(s.turn.currentSearchHistory, e)
      updates == [searchHistory |-> history]
      ms == MapMessage(s.ref.messages, aid, updates)
      ref == [s.ref EXCEPT !.messages = ms, !.searchHistory = history]
  IN [s EXCEPT !.ref = ref, !.messages = Display(s, ref, ms),
               !.turn.currentSearchHistory = history, !.turn.show = ms]

ApplyContent(s, e, aid) ==
  LET acc == s.turn.accumulatedContent \o <<e.data>>
      updates == [content |-> acc, currentStatus |-> NoStatus]
      ms == MapMessage(s.ref.messages, aid, updates)
      ref == [s.ref EXCEPT !.messages = ms, !.accumulatedContent = acc]
  IN [s EXCEPT !.ref = ref, !.messages = Display(s, ref, ms),
               !.turn.accumulatedContent = acc, !.turn.show = ms]

\* the done branch up to its await of updateChat
ApplyDone(s, e, aid) ==
  LET history == Complete(IF e.hasSH THEN ServerHistory
                          ELSE s.turn.currentSearchHistory)
      updates == [isStreaming |-> FALSE, currentStatus |-> NoStatus,
                  searchHistory |-> history]
      final == MapMessage(s.ref.messages, aid, updates)
  IN [s EXCEPT !.messages = Display(s, s.ref, final),
               !.turn.receivedDone = TRUE, !.turn.finalMessages = final,
               !.turn.show = final,
               !.turn.calls = @ + 1,
               !.turn.pc = "saveDone"]

\* the error branch: throw new Error(data.message), inside the try whose
\* catch (parseError) only logs
ApplyError(s, e, aid) == s

ApplyEvent(s, e, aid) ==
  LET s1 == [s EXCEPT !.turn.afterError =
                         IF e.type = "error" /\ @ = 0 THEN 1
                         ELSE IF @ = 1 THEN 2 ELSE @]
  IN CASE e.type = "session" -> [s1 EXCEPT !.sessionIdRef = e.data]
       [] e.type = "status" -> ApplyStatus(s1, e, aid)
       [] e.type = "search" -> ApplySearch(s1, e, aid)
       [] e.type = "content" -> ApplyContent(s1, e, aid)
       [] e.type = "done" -> ApplyDone(s1, e, aid)
       [] e.type = "error" -> ApplyError(s1, e, aid)
       [] OTHER -> s1

\* A loop body that handles a marked line whether its payload parses or
\* not; C22_MalformedLineSkipped tells it from the loop body of the source.
ApplyLineUnparsed(s, line, aid) ==
  IF StartsWithData(line) THEN ApplyEvent(s, Parsed(line), aid) ELSE s

\* for (const line of lines): a line is handled when it starts with the
\* marker and its payload parses; the loop stops where done awaits.
ApplyLine(s, line, aid) ==
  IF StartsWithData(line) /\ ParseOk(line)
    THEN ApplyEvent(s, Parsed(line), aid)
    ELSE s

RECURSIVE ApplyLines(_, _, _)
ApplyLines(s, lines, aid) ==
  IF lines = <<>> \/ s.turn.pc = "saveDone" THEN s
  ELSE ApplyLines(ApplyLine(s, Head(lines), aid), Tail(lines), aid)


(***************************************************************************)
(* Init: the page after mount.  loadChats has filled the sidebar with the  *)
(* one stored chat and selected none.                                      *)
(***************************************************************************)
InitSingle ==
  /\ messages = <<>>
  /\ currentChatId = 0
  /\ isLoading = FALSE
  /\ abortControllerRef = 0
  /\ aborted = {}
  /\ controllers = 0
  /\ streamingChatRef = EmptyRef
  /\ sessionIdRef = ""
  /\ saveError = FALSE
  /\ showOutOfCreditsModal = FALSE
  /\ credits = MaxCredits
  /\ db = [c \in Chats |-> <<>>]
  /\ nChats = 1
  /\ turns = [t \in Turns |-> IdleTurn]
  /\ nTurns = 0
  /\ pendingLoads = {}
  /\ skipSent = ""

\* updateChat's serialization keeps id, role, content and searchHistory;
\* what getChat returns has no isStreaming and no currentStatus
Serialize(ms) ==
  [i \in DOMAIN ms |-> [ms[i] EXCEPT !.isStreaming = FALSE,
                                     !.currentStatus = NoStatus]]

(***************************************************************************)
(* handleNewChat                                                           *)
(***************************************************************************)
handleNewChat ==
  /\ aborted' = IF abortControllerRef # 0 THEN aborted \cup {abortControllerRef}
                ELSE aborted
  /\ messages' = <<>>
  /\ currentChatId' = 0
  /\ isLoading' = FALSE
  /\ sessionIdRef' = ""
  /\ UNCHANGED << cvars, dvars, mvars, skipSent, abortControllerRef, controllers, streamingChatRef, saveError,
                  showOutOfCreditsModal, credits, db, nChats, turns, nTurns,
                  pendingLoads >>

\* A handleSelectChat that cancelled the running request the way handleNewChat
\* does; C8_SelectFrame tells it from the handleSelectChat of the source.
handleSelectChatAborting(chatId) ==
  /\ chatId \in 1 .. nChats
  /\ chatId # currentChatId
  /\ aborted' = IF abortControllerRef # 0 THEN aborted \cup {abortControllerRef}
                ELSE aborted
  /\ IF streamingChatRef.chatId = chatId
       THEN /\ currentChatId' = chatId
            /\ messages' = streamingChatRef.messages
            /\ streamingChatRef' = [streamingChatRef EXCEPT !.visibleChatId = chatId]
            /\ UNCHANGED pendingLoads
       ELSE /\ streamingChatRef' =
                 IF streamingChatRef.chatId # 0
                   THEN [streamingChatRef EXCEPT !.visibleChatId = chatId]
                   ELSE streamingChatRef
            /\ pendingLoads' = pendingLoads \cup {chatId}
            /\ UNCHANGED << currentChatId, messages >>
  /\ UNCHANGED << cvars, dvars, mvars, skipSent, isLoading, abortControllerRef, controllers,
                  sessionIdRef, saveError, showOutOfCreditsModal, credits, db,
                  nChats, turns, nTurns >>

(***************************************************************************)
(* handleSelectChat(chatId), up to its await of getChat                    *)
(***************************************************************************)
handleSelectChat(chatId) ==
  /\ chatId \in 1 .. nChats
  /\ chatId # currentChatId
  /\ IF streamingChatRef.chatId = chatId
       THEN /\ currentChatId' = chatId
            /\ messages' = streamingChatRef.messages
            /\ streamingChatRef' = [streamingChatRef EXCEPT !.visibleChatId = chatId]
            /\ UNCHANGED pendingLoads
       ELSE /\ streamingChatRef' =
                 IF streamingChatRef.chatId # 0
                   THEN [streamingChatRef EXCEPT !.visibleChatId = chatId]
                   ELSE streamingChatRef
            /\ pendingLoads' = pendingLoads \cup {chatId}
            /\ UNCHANGED << currentChatId, messages >>
  /\ UNCHANGED << cvars, dvars, mvars, skipSent, isLoading, abortControllerRef, aborted, controllers,
                  sessionIdRef, saveError, showOutOfCreditsModal, credits, db,
                  nChats, turns, nTurns >>

\* getChat resolved with the stored chat
SelectChatLoaded(chatId) ==
  /\ chatId \in pendingLoads
  /\ pendingLoads' = pendingLoads \ {chatId}
  /\ currentChatId' = chatId
  /\ messages' = db[chatId]
  /\ isLoading' = IF streamingChatRef.chatId = 0 THEN FALSE ELSE isLoading
  /\ UNCHANGED << cvars, dvars, mvars, skipSent, abortControllerRef, aborted, controllers, streamingChatRef,
                  sessionIdRef, saveError, showOutOfCreditsModal, credits, db,
                  nChats, turns, nTurns >>

\* getChat rejected: the catch only logs
SelectChatFailed(chatId) ==
  /\ chatId \in pendingLoads
  /\ pendingLoads' = pendingLoads \ {chatId}
  /\ UNCHANGED << cvars, dvars, mvars, skipSent, messages, currentChatId, isLoading, abortControllerRef,
                  aborted, controllers, streamingChatRef, sessionIdRef,
                  saveError, showOutOfCreditsModal, credits, db, nChats, turns,
                  nTurns >>

(***************************************************************************)
(* handleSendMessage.  ChatInput calls it only while isLoading is false.   *)
(***************************************************************************)
\* A quota check placed after the abort of the previous request;
\* C12_QuotaFailureFrame tells it from the check of the source.
SendNoCreditsAfterAbort ==
  /\ ~isLoading
  /\ credits < 2
  /\ aborted' = IF abortControllerRef # 0 THEN aborted \cup {abortControllerRef}
                ELSE aborted
  /\ showOutOfCreditsModal' = TRUE
  /\ UNCHANGED << cvars, dvars, mvars, skipSent, messages, currentChatId, isLoading, abortControllerRef,
                  controllers, streamingChatRef, sessionIdRef,
                  saveError, credits, db, nChats, turns, nTurns, pendingLoads >>

\* credits < 2: the modal, and return
SendNoCredits ==
  /\ ~isLoading
  /\ credits < 2
  /\ showOutOfCreditsModal' = TRUE
  /\ UNCHANGED << cvars, dvars, mvars, skipSent, messages, currentChatId, isLoading, abortControllerRef,
                  aborted, controllers, streamingChatRef, sessionIdRef,
                  saveError, credits, db, nChats, turns, nTurns, pendingLoads >>

\* The two messages are appended to the messages the callback closed over,
\* the ref is initialised, and the invocation awaits getIdToken.
Begin(t, chatId, closure) ==
  LET initialMessages ==
        closure \o << Msg(UserMessageId(t), "user", <<"q">>, FALSE),
                      Msg(AssistantMessageId(t), "assistant", <<>>, TRUE) >>
  IN /\ streamingChatRef' =
          [chatId |-> chatId, visibleChatId |-> chatId,
           messages |-> initialMessages,
           assistantMessageId |-> AssistantMessageId(t),
           accumulatedContent |-> <<>>, searchHistory |-> <<>>]
     /\ messages' = initialMessages
     /\ isLoading' = TRUE
     /\ turns' = [turns EXCEPT ![t] =
          [IdleTurn EXCEPT !.pc = "token", !.chatId = chatId,
                           !.show = initialMessages]]

\* abort the previous request, make this one's controller
NewController ==
  /\ aborted' = IF abortControllerRef # 0 THEN aborted \cup {abortControllerRef}
                ELSE aborted
  /\ controllers' = controllers + 1
  /\ abortControllerRef' = controllers + 1

\* with a current chat: everything up to the await of getIdToken
SendInChat(limit) ==
  /\ ~isLoading
  /\ credits >= 2
  /\ nTurns < limit
  /\ currentChatId # 0
  /\ nTurns' = nTurns + 1
  /\ NewController
  /\ Begin(nTurns + 1, currentChatId, messages)
  /\ UNCHANGED << cvars, dvars, mvars, skipSent, currentChatId, sessionIdRef, saveError,
                  showOutOfCreditsModal, credits, db, nChats, pendingLoads >>

\* without a current chat: up to the await of createChat
SendCreate(limit) ==
  /\ ~isLoading
  /\ credits >= 2
  /\ nTurns < limit
  /\ currentChatId = 0
  /\ nTurns' = nTurns + 1
  /\ NewController
  /\ turns' = [turns EXCEPT ![nTurns + 1] =
       [IdleTurn EXCEPT !.pc = "create", !.snapshot = messages]]
  /\ UNCHANGED << cvars, dvars, mvars, skipSent, messages, currentChatId, isLoading, streamingChatRef,
                  sessionIdRef, saveError, showOutOfCreditsModal, credits, db,
                  nChats, pendingLoads >>

\* createChat resolved with the new chat's id
CreateChatOk(t) ==
  /\ turns[t].pc = "create"
  /\ nChats < MaxChats
  /\ nChats' = nChats + 1
  /\ currentChatId' = nChats + 1
  /\ Begin(t, nChats + 1, turns[t].snapshot)
  /\ UNCHANGED << cvars, dvars, mvars, skipSent, abortControllerRef, aborted, controllers, sessionIdRef,
                  saveError, showOutOfCreditsModal, credits, db, nTurns,
                  pendingLoads >>

\* createChat rejected: the toast, and return
CreateChatFailed(t) ==
  /\ turns[t].pc = "create"
  /\ saveError' = TRUE
  /\ turns' = [turns EXCEPT ![t] =
       [IdleTurn EXCEPT !.pc = "end", !.outcome = "nochat"]]
  /\ UNCHANGED << cvars, dvars, mvars, skipSent, messages, currentChatId, isLoading, abortControllerRef,
                  aborted, controllers, streamingChatRef, sessionIdRef,
                  showOutOfCreditsModal, credits, db, nChats, nTurns,
                  pendingLoads >>


\* finally { setIsLoading(false) } and the end of the invocation
Finally(t, how) ==
  /\ isLoading' = FALSE
  /\ turns' = [turns EXCEPT ![t] =
       [IdleTurn EXCEPT !.pc = "end", !.outcome = how,
                        !.chatId = turns[t].chatId, !.calls = turns[t].calls]]

\* catch (error), error not an AbortError, up to its await of updateChat:
\* the placeholder's content becomes the generic message
CatchError(t) ==
  LET updates == [content |-> GENERIC, isStreaming |-> FALSE,
                  currentStatus |-> NoStatus]
      final == MapMessage(streamingChatRef.messages, AssistantMessageId(t), updates)
  IN /\ messages' = IF streamingChatRef.visibleChatId = turns[t].chatId
                      THEN final ELSE messages
     /\ turns' = [turns EXCEPT
          ![t].pc = "saveError", ![t].finalMessages = final,
          ![t].show = final,
          ![t].calls = @ + 1]

\* getIdToken resolved: fetch is called with the signal of the controller
\* that abortControllerRef holds now
TokenOk(t) ==
  /\ turns[t].pc = "token"
  /\ turns' = [turns EXCEPT ![t].pc = "fetch", ![t].signal = abortControllerRef]
  /\ UNCHANGED << cvars, dvars, mvars, skipSent, messages, currentChatId, isLoading, abortControllerRef,
                  aborted, controllers, streamingChatRef, sessionIdRef,
                  saveError, showOutOfCreditsModal, credits, db, nChats,
                  nTurns, pendingLoads >>

\* getIdToken rejected
TokenFailed(t) ==
  /\ turns[t].pc = "token"
  /\ CatchError(t)
  /\ UNCHANGED << cvars, dvars, mvars, skipSent, currentChatId, isLoading, abortControllerRef, aborted,
                  controllers, streamingChatRef, sessionIdRef, saveError,
                  showOutOfCreditsModal, credits, db, nChats, nTurns,
                  pendingLoads >>

\* fetch rejected with AbortError: return
FetchAborted(t) ==
  /\ turns[t].pc = "fetch"
  /\ turns[t].signal \in aborted
  /\ Finally(t, "aborted")
  /\ UNCHANGED << cvars, dvars, mvars, skipSent, messages, currentChatId, abortControllerRef, aborted,
                  controllers, streamingChatRef, sessionIdRef, saveError,
                  showOutOfCreditsModal, credits, db, nChats, nTurns,
                  pendingLoads >>

\* fetch resolved with an ok response that has a body
FetchOk(t) ==
  /\ turns[t].pc = "fetch"
  /\ turns[t].signal \notin aborted
  /\ turns' = [turns EXCEPT ![t].pc = "read"]
  /\ UNCHANGED << cvars, dvars, mvars, skipSent, messages, currentChatId, isLoading, abortControllerRef,
                  aborted, controllers, streamingChatRef, sessionIdRef,
                  saveError, showOutOfCreditsModal, credits, db, nChats,
                  nTurns, pendingLoads >>

\* fetch resolved with status 402: the modal, and return
Fetch402(t) ==
  /\ turns[t].pc = "fetch"
  /\ turns[t].signal \notin aborted
  /\ showOutOfCreditsModal' = TRUE
  /\ Finally(t, "402")
  /\ UNCHANGED << cvars, dvars, mvars, skipSent, messages, currentChatId, abortControllerRef, aborted,
                  controllers, streamingChatRef, sessionIdRef, saveError,
                  credits, db, nChats, nTurns, pendingLoads >>

\* fetch rejected with a network error, or resolved not ok, or without a body
FetchFailed(t) ==
  /\ turns[t].pc = "fetch"
  /\ turns[t].signal \notin aborted
  /\ CatchError(t)
  /\ UNCHANGED << cvars, dvars, mvars, skipSent, currentChatId, isLoading, abortControllerRef, aborted,
                  controllers, streamingChatRef, sessionIdRef, saveError,
                  showOutOfCreditsModal, credits, db, nChats, nTurns,
                  pendingLoads >>

\* One chunk through the reader loop's body.  The turn record of the result
\* is at "saveDone" when a done event was handled, at "read" otherwise.
Deliver(t, chunk, turn) ==
  LET s == ApplyLines([ref |-> streamingChatRef, messages |-> messages,
                       sessionIdRef |-> sessionIdRef, turn |-> turn],
                      Split(chunk), AssistantMessageId(t))
  IN /\ streamingChatRef' = s.ref
     /\ messages' = s.messages
     /\ sessionIdRef' = s.sessionIdRef
     /\ turns' = [turns EXCEPT ![t] = s.turn]

\* reader.read() resolved with a chunk: what was still on the wire, then the
\* first k pieces of the line of the next event e the server wrote.  done is
\* the last event a server writes.
ReadChunk(t, e, k, limit) ==
  /\ turns[t].pc = "read"
  /\ turns[t].signal \notin aborted
  /\ turns[t].emitted < limit
  /\ ~turns[t].serverDone
  /\ Deliver(t, turns[t].wire \o SubSeq(Encode(e), 1, k),
             [turns[t] EXCEPT !.wire = SubSeq(Encode(e), k + 1, Len(Encode(e))),
                              !.emitted = @ + 1,
                              !.serverDone = (e.type = "done"),
                              !.sent = IF e.type = "content"
                                         THEN Append(@, e.data) ELSE @])
  /\ UNCHANGED << cvars, dvars, mvars, skipSent, currentChatId, isLoading, abortControllerRef, aborted,
                  controllers, saveError, showOutOfCreditsModal, credits, db,
                  nChats, nTurns, pendingLoads >>

\* reader.read() resolved with the rest of what the server wrote
ReadRest(t) ==
  /\ turns[t].pc = "read"
  /\ turns[t].signal \notin aborted
  /\ turns[t].wire # <<>>
  /\ Deliver(t, turns[t].wire, [turns[t] EXCEPT !.wire = <<>>])
  /\ UNCHANGED << cvars, dvars, mvars, skipSent, currentChatId, isLoading, abortControllerRef, aborted,
                  controllers, saveError, showOutOfCreditsModal, credits, db,
                  nChats, nTurns, pendingLoads >>

\* reader.read() rejected with AbortError: return
ReadAborted(t) ==
  /\ turns[t].pc = "read"
  /\ turns[t].signal \in aborted
  /\ Finally(t, "aborted")
  /\ UNCHANGED << cvars, dvars, mvars, skipSent, messages, currentChatId, abortControllerRef, aborted,
                  controllers, streamingChatRef, sessionIdRef, saveError,
                  showOutOfCreditsModal, credits, db, nChats, nTurns,
                  pendingLoads >>

\* reader.read() rejected with a transport error
ReadFailed(t) ==
  /\ turns[t].pc = "read"
  /\ turns[t].signal \notin aborted
  /\ CatchError(t)
  /\ UNCHANGED << cvars, dvars, mvars, skipSent, currentChatId, isLoading, abortControllerRef, aborted,
                  controllers, streamingChatRef, sessionIdRef, saveError,
                  showOutOfCreditsModal, credits, db, nChats, nTurns,
                  pendingLoads >>

\* if (!receivedDone), up to its await of updateChat
ForcedFinalization(t) ==
  LET history == Complete(turns[t].currentSearchHistory)
      \* content: accumulatedContent || (currentSearchHistory.length > 0
      \*            ? 'Response was interrupted ...' : m.content)
      base == [isStreaming |-> FALSE, currentStatus |-> NoStatus,
               searchHistory |-> history]
      WithContent(c) == [isStreaming |-> FALSE, currentStatus |-> NoStatus,
                         searchHistory |-> history, content |-> c]
      updates == IF turns[t].accumulatedContent # <<>>
                   THEN WithContent(turns[t].accumulatedContent)
                 ELSE IF Len(turns[t].currentSearchHistory) > 0
                   THEN WithContent(INTERRUPTED)
                 ELSE base
      final == MapMessage(streamingChatRef.messages, AssistantMessageId(t), updates)
  IN /\ messages' = IF streamingChatRef.visibleChatId = turns[t].chatId
                      THEN final ELSE messages
     /\ turns' = [turns EXCEPT
          ![t].pc = "saveForced", ![t].finalMessages = final,
          ![t].show = final,
          ![t].calls = @ + 1]

\* reader.read() reported the stream closed, everything written was read
ReadClosed(t) ==
  /\ turns[t].pc = "read"
  /\ turns[t].signal \notin aborted
  /\ turns[t].wire = <<>>
  /\ IF turns[t].receivedDone
       THEN /\ Finally(t, "done")
            /\ UNCHANGED messages
       ELSE /\ ForcedFinalization(t)
            /\ UNCHANGED isLoading
  /\ UNCHANGED << cvars, dvars, mvars, skipSent, currentChatId, abortControllerRef, aborted, controllers,
                  streamingChatRef, sessionIdRef, saveError,
                  showOutOfCreditsModal, credits, db, nChats, nTurns,
                  pendingLoads >>

\* what follows the await of updateChat: the ref is cleared; after done the
\* loop goes on to refreshCredits, otherwise the invocation ends
AfterSave(t) ==
  /\ streamingChatRef' = EmptyRef
  /\ IF turns[t].pc = "saveDone"
       THEN /\ sessionIdRef' = ""
            /\ turns' = [turns EXCEPT ![t].pc = "refresh"]
            /\ UNCHANGED isLoading
       ELSE /\ Finally(t, IF turns[t].pc = "saveForced" THEN "forced" ELSE "error")
            /\ UNCHANGED sessionIdRef

\* updateChat resolved: the list is stored (it throws on an empty list)
UpdateChatOk(t) ==
  /\ turns[t].pc \in {"saveDone", "saveForced", "saveError"}
  /\ turns[t].finalMessages # <<>>
  /\ db' = [db EXCEPT ![turns[t].chatId] = Serialize(turns[t].finalMessages)]
  /\ saveError' = FALSE
  /\ AfterSave(t)
  /\ UNCHANGED << cvars, dvars, mvars, skipSent, messages, currentChatId, abortControllerRef, aborted,
                  controllers, showOutOfCreditsModal, credits, nChats, nTurns,
                  pendingLoads >>

\* updateChat rejected: the toast
UpdateChatFailed(t) ==
  /\ turns[t].pc \in {"saveDone", "saveForced", "saveError"}
  /\ saveError' = TRUE
  /\ AfterSave(t)
  /\ UNCHANGED << cvars, dvars, mvars, skipSent, messages, currentChatId, abortControllerRef, aborted,
                  controllers, showOutOfCreditsModal, credits, db, nChats,
                  nTurns, pendingLoads >>

\* refreshCredits settled: the server has deducted the turn's two credits
\* (one for the prompt, one for the reply) or not; the loop reads on
RefreshCredits(t, balance) ==
  /\ turns[t].pc = "refresh"
  /\ balance \in {credits, credits - 2} \cap Nat
  /\ credits' = balance
  /\ turns' = [turns EXCEPT ![t].pc = "read"]
  /\ UNCHANGED << cvars, dvars, mvars, skipSent, messages, currentChatId, isLoading, abortControllerRef,
                  aborted, controllers, streamingChatRef, sessionIdRef,
                  saveError, showOutOfCreditsModal, db, nChats, nTurns,
                  pendingLoads >>

(***************************************************************************)
(* The multi-stream engine                                                 *)
(***************************************************************************)
MaxSessions == 2   \* invocations of the multi-stream handleSendMessage
MaxSaves == 2      \* updateChatCalls counts up to this and stays there

Sessions == 1 .. MaxSessions

IdleSession ==
  [pc |-> "idle", chatId |-> 0, controller |-> 0,
   accumulatedContent |-> <<>>, currentSearchHistory |-> <<>>,
   emitted |-> 0, serverDone |-> FALSE, outcome |-> "none",
   setAfterUnmount |-> FALSE,   \* it called a state setter after the unmount
   openedStream |-> FALSE,      \* its fetch resolved ok
   postTurnCredit |-> FALSE]    \* it called useCredits(1) for the reply

InitMulti ==
  /\ chatMessagesMap = << >>
  /\ generatingChats = {}
  /\ activeStreamsRef = << >>
  /\ mountedRef = TRUE
  /\ currentChatIdM = 0
  /\ pendingSaveChats = {}
  /\ creditsM = MaxCredits
  /\ modalM = FALSE
  /\ abortedM = {}
  /\ dbM = [c \in Chats |-> <<>>]
  /\ nChatsM = 1
  /\ sessions = [i \in Sessions |-> IdleSession]
  /\ nSessions = 0
  /\ pendingLoadsM = {}
  /\ savesInFlight = {}
  /\ updateChatCalls = [c \in Chats |-> 0]
  /\ finishedTurns = [c \in Chats |-> 0]

MaxCalls == 2      \* concurrent useCredits calls of one user

Calls == 1 .. MaxCalls

\* the amounts a call is made with (the dashboard passes 1)
Amounts == {1, 2}

IdleCall == [pc |-> "idle", amount |-> 0, currentCredits |-> 0, returned |-> FALSE]

\* no useCredits call yet; the document holds the daily balance
InitCredits ==
  /\ userDoc = MaxCredits
  /\ creditsBefore = MaxCredits
  /\ useCreditsCalls = [i \in Calls |-> IdleCall]

\* no conversation has been deleted
InitDelete ==
  /\ pendingDeletes = {}
  /\ deletedChats = {}

Init == InitSingle /\ InitMulti /\ InitCredits /\ InitDelete

\* map.set(key, value) and { ...prev, [key]: value }
Put(map, key, value) ==
  [x \in DOMAIN map \cup {key} |-> IF x = key THEN value ELSE map[x]]

\* map.delete(key)
Remove(map, key) == [x \in DOMAIN map \ {key} |-> map[x]]

\* prev[chatId] || []
Get(map, key) == IF key \in DOMAIN map THEN map[key] ELSE <<>>

\* updateChatMessage(targetChatId, messageId, updates)
updateChatMessage(map, targetChatId, messageId, updates) ==
  Put(map, targetChatId, MapMessage(Get(map, targetChatId), messageId, updates))

\* The saveMessages effect, run with the lists and the pending set of the
\* render that follows a setChatMessagesMap or a setPendingSaveChats: the
\* chats it calls updateChat for, each with the list of that render.  The
\* loop makes the calls one after the other; they are counted here, when the
\* run starts.
EffectCalls(map, pending) ==
  { [chat |-> c, msgs |-> map[c]] :
      c \in { d \in pending : /\ d \in DOMAIN map
                              /\ map[d] # <<>>
                              /\ ~map[d][Len(map[d])].isStreaming } }

SaveEffect(map, pending) ==
  LET calls == EffectCalls(map, pending)
      called == { x.chat : x \in calls }
  IN /\ savesInFlight' = savesInFlight \cup calls
     /\ updateChatCalls' =
          [c \in Chats |->
             IF c \in called /\ updateChatCalls[c] < MaxSaves
               THEN updateChatCalls[c] + 1 ELSE updateChatCalls[c]]

\* setPendingSaveChats(prev => new Set(prev).add(chatId)) at the end of a turn
AskSave(chatId) ==
  /\ pendingSaveChats' = pendingSaveChats \cup {chatId}
  /\ finishedTurns' = [finishedTurns EXCEPT ![chatId] = @ + 1]

\* the updateChat of the save effect resolved: the chat leaves
\* pendingSaveChats, which runs the effect again.  React drops a state update
\* of an unmounted component and runs none of its effects.
SaveResolved(x) ==
  /\ x \in savesInFlight
  /\ dbM' = [dbM EXCEPT ![x.chat] = Serialize(x.msgs)]
  /\ pendingSaveChats' = IF mountedRef THEN pendingSaveChats \ {x.chat}
                         ELSE pendingSaveChats
  /\ LET calls == IF mountedRef
                    THEN EffectCalls(chatMessagesMap, pendingSaveChats')
                    ELSE {}
         called == { y.chat : y \in calls }
     IN /\ savesInFlight' = (savesInFlight \ {x}) \cup calls
        /\ updateChatCalls' =
             [c \in Chats |->
                IF c \in called /\ updateChatCalls[c] < MaxSaves
                  THEN updateChatCalls[c] + 1 ELSE updateChatCalls[c]]
  /\ UNCHANGED << cvars, dvars, svars, chatMessagesMap, generatingChats, activeStreamsRef,
                  mountedRef, currentChatIdM, creditsM, modalM, abortedM,
                  nChatsM, sessions, nSessions, pendingLoadsM, finishedTurns >>

\* the updateChat of the save effect rejected: the catch only logs, the chat
\* stays in pendingSaveChats
SaveRejected(x) ==
  /\ x \in savesInFlight
  /\ savesInFlight' = savesInFlight \ {x}
  /\ UNCHANGED << cvars, dvars, svars, chatMessagesMap, generatingChats, activeStreamsRef,
                  mountedRef, currentChatIdM, pendingSaveChats, creditsM,
                  modalM, abortedM, dbM, nChatsM, sessions, nSessions,
                  pendingLoadsM, updateChatCalls, finishedTurns >>

\* handleNewChat: only the view changes
handleNewChatM ==
  /\ mountedRef
  /\ currentChatIdM # 0
  /\ currentChatIdM' = 0
  /\ UNCHANGED << cvars, dvars, svars, savevars, chatMessagesMap, generatingChats, activeStreamsRef,
                  mountedRef, pendingSaveChats, creditsM, modalM, abortedM, dbM,
                  nChatsM, sessions, nSessions, pendingLoadsM >>

\* handleSelectChat(chatId), up to its await of getChat
handleSelectChatM(chatId) ==
  /\ mountedRef
  /\ chatId \in 1 .. nChatsM
  /\ chatId # currentChatIdM
  /\ IF chatId \in DOMAIN chatMessagesMap
       THEN currentChatIdM' = chatId /\ UNCHANGED pendingLoadsM
       ELSE pendingLoadsM' = pendingLoadsM \cup {chatId} /\ UNCHANGED currentChatIdM
  /\ UNCHANGED << cvars, dvars, svars, savevars, chatMessagesMap, generatingChats, activeStreamsRef,
                  mountedRef, pendingSaveChats, creditsM, modalM, abortedM, dbM,
                  nChatsM, sessions, nSessions >>

\* getChat resolved: the stored list replaces the chat's entry
SelectChatLoadedM(chatId) ==
  /\ chatId \in pendingLoadsM
  /\ pendingLoadsM' = pendingLoadsM \ {chatId}
  /\ IF mountedRef
       THEN /\ currentChatIdM' = chatId
            /\ chatMessagesMap' = Put(chatMessagesMap, chatId, dbM[chatId])
            /\ SaveEffect(chatMessagesMap', pendingSaveChats)
       ELSE UNCHANGED << currentChatIdM, chatMessagesMap, savesInFlight,
                         updateChatCalls >>
  /\ UNCHANGED << cvars, dvars, svars, finishedTurns, generatingChats, activeStreamsRef, mountedRef,
                  pendingSaveChats, creditsM, modalM, abortedM, dbM, nChatsM,
                  sessions, nSessions >>

\* getChat rejected: the catch only logs
SelectChatFailedM(chatId) ==
  /\ chatId \in pendingLoadsM
  /\ pendingLoadsM' = pendingLoadsM \ {chatId}
  /\ UNCHANGED << cvars, dvars, svars, savevars, chatMessagesMap, generatingChats, activeStreamsRef,
                  mountedRef, currentChatIdM, pendingSaveChats, creditsM,
                  modalM, abortedM, dbM, nChatsM, sessions, nSessions >>

\* handleSendMessage with credits < 2: the modal, and return.  ChatInput is
\* disabled while the shown chat is in generatingChats.
SendNoCreditsM ==
  /\ mountedRef
  /\ currentChatIdM \notin generatingChats
  /\ creditsM < 2
  /\ modalM' = TRUE
  /\ UNCHANGED << cvars, dvars, svars, savevars, chatMessagesMap, generatingChats, activeStreamsRef,
                  mountedRef, currentChatIdM, pendingSaveChats, creditsM,
                  abortedM, dbM, nChatsM, sessions, nSessions, pendingLoadsM >>

\* handleSendMessage up to its await of useCredits(1); chatId will be the
\* currentChatId the callback closed over
handleSendMessageM ==
  /\ mountedRef
  /\ currentChatIdM \notin generatingChats
  /\ creditsM >= 2
  /\ nSessions < MaxSessions
  /\ nSessions' = nSessions + 1
  /\ sessions' = [sessions EXCEPT ![nSessions + 1] =
       [IdleSession EXCEPT !.pc = "credit", !.chatId = currentChatIdM]]
  /\ UNCHANGED << cvars, dvars, svars, savevars, chatMessagesMap, generatingChats, activeStreamsRef,
                  mountedRef, currentChatIdM, pendingSaveChats, creditsM,
                  modalM, abortedM, dbM, nChatsM, pendingLoadsM >>

\* Abort the chat's existing stream, register this one's controller (the
\* controller of invocation i is i), mark the chat generating, append the
\* two messages.  Nothing on this path reads mountedRef: after an unmount the
\* controller is still registered and the setters are still called, to no
\* effect on the state of the unmounted component.
Register(i, chatId) ==
  /\ abortedM' = IF chatId \in DOMAIN activeStreamsRef
                   THEN abortedM \cup {activeStreamsRef[chatId]} ELSE abortedM
  /\ activeStreamsRef' = Put(activeStreamsRef, chatId, i)
  /\ sessions' = [sessions EXCEPT ![i].pc = "fetch", ![i].chatId = chatId,
                                  ![i].controller = i,
                                  ![i].setAfterUnmount = ~mountedRef]
  /\ IF mountedRef
       THEN /\ generatingChats' = generatingChats \cup {chatId}
            /\ chatMessagesMap' = Put(chatMessagesMap, chatId,
                 Get(chatMessagesMap, chatId) \o
                   << Msg(UserMessageId(i), "user", <<"q">>, FALSE),
                      [Msg(AssistantMessageId(i), "assistant", <<>>, TRUE)
                         EXCEPT !.currentStatus = [set |-> TRUE, canSkip |-> FALSE]] >>)
            /\ SaveEffect(chatMessagesMap', pendingSaveChats)
       ELSE UNCHANGED << generatingChats, chatMessagesMap, savesInFlight,
                         updateChatCalls >>
  /\ UNCHANGED finishedTurns

\* useCredits(1) returned true
PromptCreditOk(i) ==
  /\ sessions[i].pc = "credit"
  /\ creditsM >= 1
  /\ creditsM' = creditsM - 1
  /\ IF sessions[i].chatId = 0
       THEN /\ sessions' = [sessions EXCEPT ![i].pc = "create"]
            /\ UNCHANGED << abortedM, activeStreamsRef, generatingChats,
                            chatMessagesMap, savevars >>
       ELSE Register(i, sessions[i].chatId)
  /\ UNCHANGED << cvars, dvars, svars, mountedRef, currentChatIdM, pendingSaveChats, modalM,
                  dbM, nChatsM, nSessions, pendingLoadsM >>

\* useCredits(1) returned false: the modal, and return
PromptCreditFailed(i) ==
  /\ sessions[i].pc = "credit"
  /\ modalM' = TRUE
  /\ sessions' = [sessions EXCEPT ![i].pc = "end", ![i].outcome = "nocredit"]
  /\ UNCHANGED << cvars, dvars, svars, savevars, chatMessagesMap, generatingChats, activeStreamsRef,
                  mountedRef, currentChatIdM, pendingSaveChats, creditsM,
                  abortedM, dbM, nChatsM, nSessions, pendingLoadsM >>

\* createChat resolved
CreateChatOkM(i) ==
  /\ sessions[i].pc = "create"
  /\ nChatsM < MaxChats
  /\ nChatsM' = nChatsM + 1
  /\ currentChatIdM' = IF mountedRef THEN nChatsM + 1 ELSE currentChatIdM
  /\ Register(i, nChatsM + 1)
  /\ UNCHANGED << cvars, dvars, svars, mountedRef, pendingSaveChats, creditsM, modalM, dbM,
                  nSessions, pendingLoadsM >>

\* createChat rejected: return
CreateChatFailedM(i) ==
  /\ sessions[i].pc = "create"
  /\ sessions' = [sessions EXCEPT ![i].pc = "end", ![i].outcome = "nochat"]
  /\ UNCHANGED << cvars, dvars, svars, savevars, chatMessagesMap, generatingChats, activeStreamsRef,
                  mountedRef, currentChatIdM, pendingSaveChats, creditsM,
                  modalM, abortedM, dbM, nChatsM, nSessions, pendingLoadsM >>

\* A finally that clears the whole registry and the whole generating set
\* instead of the session's own chat; C15_SessionsIndependent tells it from
\* the finally of the source.
FinallyAll(i, how) ==
  /\ generatingChats' = IF mountedRef THEN {} ELSE generatingChats
  /\ activeStreamsRef' = << >>
  /\ sessions' = [sessions EXCEPT ![i] =
       [IdleSession EXCEPT !.pc = "end", !.outcome = how,
                           !.chatId = sessions[i].chatId,
                           !.controller = sessions[i].controller,
                           !.setAfterUnmount = sessions[i].setAfterUnmount,
                           !.openedStream = sessions[i].openedStream,
                           !.postTurnCredit = sessions[i].postTurnCredit]]

\* A finally that clears the registry entry but leaves the chat in the
\* generating set; C30_SessionsEnd tells it from the finally of the source.
FinallyLeaking(i, how) ==
  /\ generatingChats' = generatingChats
  /\ activeStreamsRef' = Remove(activeStreamsRef, sessions[i].chatId)
  /\ sessions' = [sessions EXCEPT ![i] =
       [IdleSession EXCEPT !.pc = "end", !.outcome = how,
                           !.chatId = sessions[i].chatId,
                           !.controller = sessions[i].controller,
                           !.setAfterUnmount = sessions[i].setAfterUnmount,
                           !.openedStream = sessions[i].openedStream,
                           !.postTurnCredit = sessions[i].postTurnCredit]]

\* finally: the chat leaves generatingChats (if mounted) and its entry
\* leaves activeStreamsRef
FinallyM(i, how) ==
  /\ generatingChats' = IF mountedRef THEN generatingChats \ {sessions[i].chatId}
                        ELSE generatingChats
  /\ activeStreamsRef' = Remove(activeStreamsRef, sessions[i].chatId)
  /\ sessions' = [sessions EXCEPT ![i] =
       [IdleSession EXCEPT !.pc = "end", !.outcome = how,
                           !.chatId = sessions[i].chatId,
                           !.controller = sessions[i].controller,
                           !.setAfterUnmount = sessions[i].setAfterUnmount,
                           !.openedStream = sessions[i].openedStream,
                           !.postTurnCredit = sessions[i].postTurnCredit]]

\* fetch or reader.read() rejected with AbortError: return
AbortedM(i) ==
  /\ sessions[i].pc \in {"fetch", "read"}
  /\ sessions[i].controller \in abortedM
  /\ FinallyM(i, "aborted")
  /\ UNCHANGED << cvars, dvars, svars, savevars, chatMessagesMap, mountedRef, currentChatIdM,
                  pendingSaveChats, creditsM, modalM, abortedM, dbM, nChatsM,
                  nSessions, pendingLoadsM >>

\* fetch resolved ok
FetchOkM(i) ==
  /\ sessions[i].pc = "fetch"
  /\ sessions[i].controller \notin abortedM
  /\ sessions' = [sessions EXCEPT ![i].pc = "read", ![i].openedStream = TRUE]
  /\ UNCHANGED << cvars, dvars, svars, savevars, chatMessagesMap, generatingChats, activeStreamsRef,
                  mountedRef, currentChatIdM, pendingSaveChats, creditsM,
                  modalM, abortedM, dbM, nChatsM, nSessions, pendingLoadsM >>

\* fetch or reader.read() failed otherwise: the catch writes the error
\* message into the placeholder and asks for a save
FailedM(i) ==
  /\ sessions[i].pc \in {"fetch", "read"}
  /\ sessions[i].controller \notin abortedM
  /\ LET updates == [content |-> <<"Sorry, I encountered an error">>,
                     isStreaming |-> FALSE, currentStatus |-> NoStatus]
     IN IF mountedRef
          THEN /\ chatMessagesMap' = updateChatMessage(chatMessagesMap,
                     sessions[i].chatId, AssistantMessageId(i), updates)
               /\ AskSave(sessions[i].chatId)
               /\ SaveEffect(chatMessagesMap', pendingSaveChats')
          ELSE UNCHANGED << chatMessagesMap, pendingSaveChats, savevars >>
  /\ FinallyM(i, "error")
  /\ UNCHANGED << cvars, dvars, svars, mountedRef, currentChatIdM, creditsM, modalM,
                  abortedM, dbM, nChatsM, nSessions, pendingLoadsM >>

\* the search branch of the multi-stream loop: the entry is replaced whole
UpsertM(history, e) ==
  LET entry == [query |-> e.data, sources |-> e.sources,
                iteration |-> e.iteration, queryIndex |-> e.queryIndex,
                status |-> e.status, textPreview |-> ""]
      j == FindIndex(history, e.iteration, e.queryIndex)
  IN IF j > 0 THEN [history EXCEPT ![j] = entry] ELSE Append(history, entry)

\* reader.read() resolved with the line of event e, e not done
ReadChunkM(i, e) ==
  /\ sessions[i].pc = "read"
  /\ sessions[i].controller \notin abortedM
  /\ mountedRef
  /\ e.type # "done"
  /\ ~sessions[i].serverDone
  /\ sessions[i].emitted < MaxEvents
  /\ LET line == Split(Encode(e))[1]
         ok == StartsWithData(line) /\ ParseOk(line)
         acc == sessions[i].accumulatedContent \o <<e.data>>
         history == UpsertM(sessions[i].currentSearchHistory, e)
         FStatus == [currentStatus |-> [set |-> TRUE, canSkip |-> FALSE]]
         FSearch == [searchHistory |-> history]
         FContent == [content |-> acc, currentStatus |-> NoStatus]
         id == AssistantMessageId(i)
         chat == sessions[i].chatId
     IN CASE ok /\ e.type = "status" ->
               /\ chatMessagesMap' = updateChatMessage(chatMessagesMap, chat, id, FStatus)
               /\ SaveEffect(chatMessagesMap', pendingSaveChats)
               /\ sessions' = [sessions EXCEPT ![i].emitted = @ + 1]
          [] ok /\ e.type = "search" ->
               /\ chatMessagesMap' = updateChatMessage(chatMessagesMap, chat, id, FSearch)
               /\ SaveEffect(chatMessagesMap', pendingSaveChats)
               /\ sessions' = [sessions EXCEPT ![i].currentSearchHistory = history,
                                               ![i].emitted = @ + 1]
          [] ok /\ e.type = "content" ->
               /\ chatMessagesMap' = updateChatMessage(chatMessagesMap, chat, id, FContent)
               /\ SaveEffect(chatMessagesMap', pendingSaveChats)
               /\ sessions' = [sessions EXCEPT ![i].accumulatedContent = acc,
                                               ![i].emitted = @ + 1]
          [] OTHER ->
               /\ sessions' = [sessions EXCEPT ![i].emitted = @ + 1]
               /\ UNCHANGED << chatMessagesMap, savesInFlight, updateChatCalls >>
  /\ UNCHANGED << cvars, dvars, svars, finishedTurns, generatingChats, activeStreamsRef, mountedRef,
                  currentChatIdM, pendingSaveChats, creditsM, modalM, abortedM,
                  dbM, nChatsM, nSessions, pendingLoadsM >>

\* reader.read() resolved with the line of a done event (the last event a
\* server writes): up to the await of useCredits(1)
ReadDoneM(i) ==
  /\ sessions[i].pc = "read"
  /\ sessions[i].controller \notin abortedM
  /\ mountedRef
  /\ ~sessions[i].serverDone
  /\ sessions' = [sessions EXCEPT ![i].pc = "doneCredit", ![i].serverDone = TRUE]
  /\ UNCHANGED << cvars, dvars, svars, savevars, chatMessagesMap, generatingChats, activeStreamsRef,
                  mountedRef, currentChatIdM, pendingSaveChats, creditsM,
                  modalM, abortedM, dbM, nChatsM, nSessions, pendingLoadsM >>

\* useCredits(1) settled, paid or not: up to the await of refreshCredits()
DoneCreditM(i, paid) ==
  /\ sessions[i].pc = "doneCredit"
  /\ paid => creditsM >= 1
  /\ creditsM' = IF paid THEN creditsM - 1 ELSE creditsM
  /\ sessions' = [sessions EXCEPT ![i].pc = "doneRefresh",
                                  ![i].postTurnCredit = TRUE]
  /\ UNCHANGED << cvars, dvars, svars, savevars, chatMessagesMap, generatingChats, activeStreamsRef,
                  mountedRef, currentChatIdM, pendingSaveChats, modalM,
                  abortedM, dbM, nChatsM, nSessions, pendingLoadsM >>

\* refreshCredits() settled: the placeholder is final and a save is asked
\* for; the loop reads on
DoneRefreshM(i) ==
  /\ sessions[i].pc = "doneRefresh"
  /\ LET updates == [isStreaming |-> FALSE, currentStatus |-> NoStatus,
                     searchHistory |-> sessions[i].currentSearchHistory]
     IN IF mountedRef
          THEN /\ chatMessagesMap' = updateChatMessage(chatMessagesMap,
                     sessions[i].chatId, AssistantMessageId(i), updates)
               /\ AskSave(sessions[i].chatId)
               /\ SaveEffect(chatMessagesMap', pendingSaveChats')
          ELSE UNCHANGED << chatMessagesMap, pendingSaveChats, savevars >>
  /\ sessions' = [sessions EXCEPT ![i].pc = "read", ![i].outcome = "done",
                                  ![i].setAfterUnmount = @ \/ ~mountedRef]
  /\ UNCHANGED << cvars, dvars, svars, generatingChats, activeStreamsRef, mountedRef,
                  currentChatIdM, creditsM, modalM, abortedM, dbM, nChatsM,
                  nSessions, pendingLoadsM >>

\* The cleanup of the mount effect: mountedRef is cleared, every registered
\* controller is aborted, the registry is cleared.
Unmount ==
  /\ mountedRef
  /\ mountedRef' = FALSE
  /\ abortedM' = abortedM \cup { activeStreamsRef[c] : c \in DOMAIN activeStreamsRef }
  /\ activeStreamsRef' = << >>
  /\ UNCHANGED << cvars, dvars, svars, savevars, chatMessagesMap, generatingChats,
                  currentChatIdM, pendingSaveChats, creditsM, modalM, dbM,
                  nChatsM, sessions, nSessions, pendingLoadsM >>

\* reader.read() reported the stream closed (or a chunk came after unmount):
\* the loop breaks and the finally runs
ReadClosedM(i) ==
  /\ sessions[i].pc = "read"
  /\ sessions[i].controller \notin abortedM
  /\ FinallyM(i, IF sessions[i].outcome = "done" THEN "done" ELSE "closed")
  /\ UNCHANGED << cvars, dvars, svars, savevars, chatMessagesMap, mountedRef, currentChatIdM,
                  pendingSaveChats, creditsM, modalM, abortedM, dbM, nChatsM,
                  nSessions, pendingLoadsM >>

NextMulti ==
  \/ handleNewChatM
  \/ \E c \in Chats : handleSelectChatM(c)
  \/ \E c \in Chats : SelectChatLoadedM(c)
  \/ \E c \in Chats : SelectChatFailedM(c)
  \/ SendNoCreditsM
  \/ handleSendMessageM
  \/ \E i \in Sessions : PromptCreditOk(i)
  \/ \E i \in Sessions : PromptCreditFailed(i)
  \/ \E i \in Sessions : CreateChatOkM(i)
  \/ \E i \in Sessions : CreateChatFailedM(i)
  \/ \E i \in Sessions : AbortedM(i)
  \/ \E i \in Sessions : FetchOkM(i)
  \/ \E i \in Sessions : FailedM(i)
  \/ \E i \in Sessions, e \in Events : ReadChunkM(i, e)
  \/ \E i \in Sessions : ReadDoneM(i)
  \/ \E i \in Sessions, paid \in BOOLEAN : DoneCreditM(i, paid)
  \/ \E i \in Sessions : DoneRefreshM(i)
  \/ \E i \in Sessions : ReadClosedM(i)
  \/ \E x \in savesInFlight : SaveResolved(x)
  \/ \E x \in savesInFlight : SaveRejected(x)

SpecMulti == Init /\ [][NextMulti]_vars

\* the multi-stream engine in a view that can be left
NextUnmount == NextMulti \/ Unmount

SpecUnmount == Init /\ [][NextUnmount]_vars

\* The user, the store and the parts of a turn that do not depend on what
\* the server writes.
Step ==
  \/ handleNewChat
  \/ \E c \in Chats : handleSelectChat(c)
  \/ \E c \in Chats : SelectChatLoaded(c)
  \/ \E c \in Chats : SelectChatFailed(c)
  \/ SendNoCredits
  \/ \E t \in Turns : CreateChatOk(t)
  \/ \E t \in Turns : CreateChatFailed(t)
  \/ \E t \in Turns : TokenOk(t)
  \/ \E t \in Turns : TokenFailed(t)
  \/ \E t \in Turns : FetchAborted(t)
  \/ \E t \in Turns : FetchOk(t)
  \/ \E t \in Turns : Fetch402(t)
  \/ \E t \in Turns : FetchFailed(t)
  \/ \E t \in Turns : ReadAborted(t)
  \/ \E t \in Turns : ReadFailed(t)
  \/ \E t \in Turns : ReadClosed(t)
  \/ \E t \in Turns : UpdateChatOk(t)
  \/ \E t \in Turns : UpdateChatFailed(t)
  \/ \E t \in Turns, b \in 0 .. MaxCredits : RefreshCredits(t, b)

\* The whole engine: up to MaxTurns turns, every chunk a whole line.
Next ==
  \/ Step
  \/ SendInChat(MaxTurns)
  \/ SendCreate(MaxTurns)
  \/ \E t \in Turns, e \in Events : ReadChunk(t, e, 3, MaxEvents)

Spec == Init /\ [][Next]_vars

\* One turn's stream: richer events, chunk boundaries anywhere.
NextStream ==
  \/ Step
  \/ SendInChat(1)
  \/ SendCreate(1)
  \/ \E t \in Turns, e \in StreamEvents, k \in 1 .. 3 : ReadChunk(t, e, k, MaxLines)
  \/ \E t \in Turns : ReadRest(t)

SpecStream == Init /\ [][NextStream]_vars

(***************************************************************************)
(* Skip search.  The button is drawn by ChatMessage and SearchStatus for a *)
(* displayed message; its click runs handleSkipSearch.                     *)
(***************************************************************************)
\* the session id the server announces in the stream of invocation t
SessionOf(t) == << "s1", "s2", "s3", "s4" >>[t]

\* ChatMessage: !isUser && currentStatus?.canSkip && isStreaming && !content
\* (under currentStatus && !content); SearchStatus: isStreaming && canSkip,
\* rendered when searchHistory is not empty
ShowsSkipButton(m) ==
  /\ m.role = "assistant"
  /\ m.isStreaming
  /\ m.currentStatus.set /\ m.currentStatus.canSkip
  /\ m.content = <<>> \/ m.searchHistory # <<>>

\* handleSkipSearch with a session id in sessionIdRef: the request is sent
\* (without one it returns at once)
handleSkipSearch ==
  /\ \E j \in DOMAIN messages : ShowsSkipButton(messages[j])
  /\ sessionIdRef # ""
  /\ skipSent' = sessionIdRef
  /\ UNCHANGED << cvars, dvars, mvars, messages, currentChatId, isLoading, abortControllerRef,
                  aborted, controllers, streamingChatRef, sessionIdRef,
                  saveError, showOutOfCreditsModal, credits, db, nChats,
                  turns, nTurns, pendingLoads >>

\* what a server writes in the runs of SpecSkip: the session event first,
\* then a status that allows skipping, content, or done
SkipEvents(t) ==
  IF turns[t].emitted = 0 THEN { EvSession(SessionOf(t)) }
  ELSE { EvStatus(TRUE), EvContent("a"), EvDone(FALSE) }

\* The whole engine with the skip button: each stream announces its session
\* first, then sends a skippable status, content or done.
NextSkip ==
  \/ Step
  \/ handleSkipSearch
  \/ SendInChat(MaxTurns)
  \/ SendCreate(MaxTurns)
  \/ \E t \in Turns : \E e \in SkipEvents(t) : ReadChunk(t, e, 3, MaxEvents)

SpecSkip == Init /\ [][NextSkip]_vars

\* One turn's searches: up to MaxSearches events, every chunk a whole line.
NextSearch ==
  \/ Step
  \/ SendInChat(1)
  \/ SendCreate(1)
  \/ \E t \in Turns, e \in SearchEvents : ReadChunk(t, e, 3, MaxSearches)

SpecSearch == Init /\ [][NextSearch]_vars


(***************************************************************************)
(* The page is one engine or the other: in SpecEither a run is a run of    *)
(* the single-stream engine or a run of the multi-stream engine.           *)
(***************************************************************************)
NextEither ==
  \/ InitMulti /\ Next
  \/ InitSingle /\ NextMulti

SpecEither == Init /\ [][NextEither]_vars

\* The searches of either engine: one turn of the single-stream engine, or
\* the multi-stream engine with search events in its streams and a user who
\* submits and clicks New Chat but selects no stored conversation.
NextMultiSearch ==
  \/ handleNewChatM
  \/ SendNoCreditsM
  \/ handleSendMessageM
  \/ \E i \in Sessions : PromptCreditOk(i)
  \/ \E i \in Sessions : PromptCreditFailed(i)
  \/ \E i \in Sessions : CreateChatOkM(i)
  \/ \E i \in Sessions : CreateChatFailedM(i)
  \/ \E i \in Sessions : AbortedM(i)
  \/ \E i \in Sessions : FetchOkM(i)
  \/ \E i \in Sessions : FailedM(i)
  \/ \E i \in Sessions, e \in SearchEvents : ReadChunkM(i, e)
  \/ \E i \in Sessions : ReadDoneM(i)
  \/ \E i \in Sessions, paid \in BOOLEAN : DoneCreditM(i, paid)
  \/ \E i \in Sessions : DoneRefreshM(i)
  \/ \E i \in Sessions : ReadClosedM(i)
  \/ \E x \in savesInFlight : SaveResolved(x)
  \/ \E x \in savesInFlight : SaveRejected(x)

NextSearchEither ==
  \/ InitMulti /\ NextSearch
  \/ InitSingle /\ NextMultiSearch

SpecSearchEither == Init /\ [][NextSearchEither]_vars

(***************************************************************************)
(* handleDeleteChat(chatId) of the multi-stream engine                     *)
(***************************************************************************)
\* up to the await of deleteChat: the chat's registered controller is
\* aborted and the chat leaves activeStreamsRef and generatingChats.  The
\* call keeps the currentChatId of its closure.
handleDeleteChat(chatId) ==
  /\ mountedRef
  /\ chatId \in 1 .. nChatsM
  /\ chatId \notin deletedChats
  /\ \A x \in pendingDeletes : x.chatId # chatId
  /\ IF chatId \in DOMAIN activeStreamsRef
       THEN /\ abortedM' = abortedM \cup {activeStreamsRef[chatId]}
            /\ activeStreamsRef' = Remove(activeStreamsRef, chatId)
            /\ generatingChats' = generatingChats \ {chatId}
       ELSE UNCHANGED << abortedM, activeStreamsRef, generatingChats >>
  /\ pendingDeletes' = pendingDeletes \cup
                         {[chatId |-> chatId, currentChatId |-> currentChatIdM]}
  /\ UNCHANGED << cvars, svars, savevars, deletedChats, chatMessagesMap, mountedRef,
                  currentChatIdM, pendingSaveChats, creditsM, modalM, dbM,
                  nChatsM, sessions, nSessions, pendingLoadsM >>

\* deleteChat resolved: the chat's list leaves chatMessagesMap, which runs
\* the save effect; the view is reset if the closure's currentChatId is the
\* chat
DeleteChatOk(x) ==
  /\ x \in pendingDeletes
  /\ pendingDeletes' = pendingDeletes \ {x}
  /\ deletedChats' = deletedChats \cup {x.chatId}
  /\ dbM' = [dbM EXCEPT ![x.chatId] = <<>>]
  /\ IF mountedRef
       THEN /\ chatMessagesMap' = Remove(chatMessagesMap, x.chatId)
            /\ currentChatIdM' = IF x.currentChatId = x.chatId THEN 0
                                 ELSE currentChatIdM
            /\ SaveEffect(chatMessagesMap', pendingSaveChats)
       ELSE UNCHANGED << chatMessagesMap, currentChatIdM, savesInFlight,
                         updateChatCalls >>
  /\ UNCHANGED << cvars, svars, finishedTurns, generatingChats, activeStreamsRef,
                  mountedRef, pendingSaveChats, creditsM, modalM, abortedM,
                  nChatsM, sessions, nSessions, pendingLoadsM >>

\* deleteChat rejected: the catch only logs
DeleteChatFailed(x) ==
  /\ x \in pendingDeletes
  /\ pendingDeletes' = pendingDeletes \ {x}
  /\ UNCHANGED << cvars, svars, mvars, deletedChats >>

\* The multi-stream engine for a user who submits, clicks New Chat and
\* deletes conversations, but selects no stored conversation.
NextDelete ==
  \/ handleNewChatM
  \/ SendNoCreditsM
  \/ handleSendMessageM
  \/ \E c \in Chats : handleDeleteChat(c)
  \/ \E x \in pendingDeletes : DeleteChatOk(x)
  \/ \E x \in pendingDeletes : DeleteChatFailed(x)
  \/ \E i \in Sessions : PromptCreditOk(i)
  \/ \E i \in Sessions : PromptCreditFailed(i)
  \/ \E i \in Sessions : CreateChatOkM(i)
  \/ \E i \in Sessions : CreateChatFailedM(i)
  \/ \E i \in Sessions : AbortedM(i)
  \/ \E i \in Sessions : FetchOkM(i)
  \/ \E i \in Sessions : FailedM(i)
  \/ \E i \in Sessions, e \in Events : ReadChunkM(i, e)
  \/ \E i \in Sessions : ReadDoneM(i)
  \/ \E i \in Sessions, paid \in BOOLEAN : DoneCreditM(i, paid)
  \/ \E i \in Sessions : DoneRefreshM(i)
  \/ \E i \in Sessions : ReadClosedM(i)
  \/ \E x \in savesInFlight : SaveResolved(x)
  \/ \E x \in savesInFlight : SaveRejected(x)

SpecDelete == Init /\ [][NextDelete]_vars

(***************************************************************************)
(* useCredits(userId, amount) of lib/creditsService, for a document that   *)
(* exists and was reset today: getUserCredits is one getDoc, then the      *)
(* comparison, then one setDoc.  Calls of one user interleave at the       *)
(* awaits.                                                                 *)
(***************************************************************************)
\* useCredits is called: up to its await of getDoc
CallUseCredits(i, amount) ==
  /\ useCreditsCalls[i].pc = "idle"
  /\ useCreditsCalls' = [useCreditsCalls EXCEPT ![i].pc = "getDoc", ![i].amount = amount]
  /\ UNCHANGED << svars, mvars, dvars, userDoc, creditsBefore >>

\* getDoc resolved: currentCredits is read; return false if it is less than
\* amount, else up to the await of setDoc
GetUserCredits(i) ==
  /\ useCreditsCalls[i].pc = "getDoc"
  /\ useCreditsCalls' =
       [useCreditsCalls EXCEPT
          ![i].currentCredits = userDoc,
          ![i].pc = IF userDoc < useCreditsCalls[i].amount THEN "returned" ELSE "setDoc"]
  /\ UNCHANGED << svars, mvars, dvars, userDoc, creditsBefore >>

\* setDoc({credits: currentCredits.credits - amount}, {merge: true}) resolved:
\* return true
SetDocOk(i) ==
  /\ useCreditsCalls[i].pc = "setDoc"
  /\ userDoc' = useCreditsCalls[i].currentCredits - useCreditsCalls[i].amount
  /\ useCreditsCalls' = [useCreditsCalls EXCEPT ![i].pc = "returned", ![i].returned = TRUE]
  /\ UNCHANGED << svars, mvars, dvars, creditsBefore >>

\* setDoc rejected: the catch returns false
SetDocFailed(i) ==
  /\ useCreditsCalls[i].pc = "setDoc"
  /\ useCreditsCalls' = [useCreditsCalls EXCEPT ![i].pc = "returned"]
  /\ UNCHANGED << svars, mvars, dvars, userDoc, creditsBefore >>

NextCredits ==
  \/ \E i \in Calls, amount \in Amounts : CallUseCredits(i, amount)
  \/ \E i \in Calls : GetUserCredits(i)
  \/ \E i \in Calls : SetDocOk(i)
  \/ \E i \in Calls : SetDocFailed(i)

\* the balance the first call finds
InitBalance ==
  /\ InitSingle /\ InitMulti /\ InitDelete
  /\ userDoc \in 0 .. MaxCredits + 1
  /\ creditsBefore = userDoc
  /\ useCreditsCalls = [i \in Calls |-> IdleCall]

SpecCredits == InitBalance /\ [][NextCredits]_vars


(***************************************************************************)
(* Properties of the single-stream engine                                  *)
(***************************************************************************)
\* the invocation t has begun and has not returned
InFlight(t) == turns[t].pc \notin {"idle", "end"}

\* streamingChatRef is the record invocation t initialised
OwnsRef(t) ==
  /\ streamingChatRef.chatId = turns[t].chatId
  /\ streamingChatRef.assistantMessageId = AssistantMessageId(t)

\* the list ms holds invocation t's placeholder, finalized
HasFinalPlaceholder(ms, t) ==
  \E i \in DOMAIN ms :
    /\ ms[i].id = AssistantMessageId(t)
    /\ ~ms[i].isStreaming
    /\ ms[i].currentStatus = NoStatus

\* C1: every turn that appended its two messages and ended (by done, by the
\* stream closing without done, by cancellation or by an error) has made
\* exactly one updateChat call.
C1_FinalizedExactlyOnce ==
  \A t \in Turns :
    (turns[t].pc = "end" /\ turns[t].outcome \in {"done", "forced", "error", "aborted"})
      => turns[t].calls = 1

\* C2: a turn whose stream closed with no done event applied makes exactly
\* one updateChat call, and the list it passes holds its placeholder with
\* isStreaming false and currentStatus null.
C2_ClosedWithoutDone ==
  \A t \in Turns :
    turns[t].pc = "saveForced"
      => /\ turns[t].calls = 1
         /\ HasFinalPlaceholder(turns[t].finalMessages, t)

\* C4: when the user selects the conversation a turn in progress is
\* generating into, the list displayed is the list the turn last displayed
\* or would have displayed had the user never left.
C4_SwitchBackShowsSame ==
  [][\A c \in Chats, t \in Turns :
       (handleSelectChat(c) /\ InFlight(t) /\ OwnsRef(t) /\ turns[t].chatId = c
          /\ abortControllerRef \notin aborted /\ currentChatId # 0)
         => messages' = turns[t].show]_vars

\* C6: once a turn has ended (done, closed without done, error, 402 or abort)
\* streamingChatRef is no longer the record of that turn.
C6_RefReleasedAtEnd ==
  \A t \in Turns :
    (turns[t].pc = "end"
       /\ turns[t].outcome \in {"done", "forced", "error", "402", "aborted"})
      => ~OwnsRef(t)

\* C7: handleNewChat aborts the request of no turn that is generating.
C7_NewChatKeepsTurn ==
  [][handleNewChat =>
       \A t \in Turns :
         (turns[t].pc \in {"fetch", "read"} /\ turns[t].signal \notin aborted)
           => turns[t].signal \notin aborted']_vars

(***************************************************************************)
(* Properties of one turn's stream                                         *)
(***************************************************************************)
\* C5: whenever everything the server wrote has been read, the accumulated
\* content is the concatenation of the deltas of the content events written,
\* however the lines were cut into chunks.
C5_ChunkingInvariance ==
  \A t \in Turns :
    (turns[t].pc = "read" /\ turns[t].wire = <<>>)
      => turns[t].accumulatedContent = turns[t].sent

\* C9: once an error event is decoded the turn is in its error finalization:
\* the reader loop handles nothing more.
C9_ErrorEventTerminates ==
  \A t \in Turns : turns[t].afterError >= 1 => turns[t].pc = "saveError"

\* C10: a turn finalized because reader.read() rejected, before any done,
\* keeps the content it had accumulated.
C10_TransportFailureKeepsContent ==
  \A t \in Turns :
    (turns[t].pc = "saveError" /\ ~turns[t].receivedDone
       /\ turns[t].accumulatedContent # <<>>)
      => \E i \in DOMAIN turns[t].finalMessages :
           /\ turns[t].finalMessages[i].id = AssistantMessageId(t)
           /\ turns[t].finalMessages[i].content = turns[t].accumulatedContent

(***************************************************************************)
(* Properties of the multi-stream engine                                   *)
(***************************************************************************)
\* C3: a session that is registered and whose controller has not been aborted
\* is the one registered session of its conversation: its controller is the
\* conversation's entry of activeStreamsRef and the conversation is in
\* generatingChats.
C3_OneRegisteredSession ==
  \A i \in Sessions :
    (sessions[i].pc \in {"fetch", "read", "doneCredit", "doneRefresh"}
       /\ sessions[i].controller \notin abortedM)
      => /\ sessions[i].chatId \in DOMAIN activeStreamsRef
         /\ activeStreamsRef[sessions[i].chatId] = sessions[i].controller
         /\ sessions[i].chatId \in generatingChats

(***************************************************************************)
(* Properties of handleSelectChat, in either engine                        *)
(***************************************************************************)
\* a step of handleSelectChat: the call up to its await, or what follows
\* the await of getChat
SelectStep ==
  \E c \in Chats :
    \/ handleSelectChat(c)
    \/ SelectChatLoaded(c)
    \/ SelectChatFailed(c)
    \/ handleSelectChatM(c)
    \/ SelectChatLoadedM(c)
    \/ SelectChatFailedM(c)

\* the step aborts no controller and changes no session record: of the
\* streaming record only visibleChatId may change
SessionsKept ==
  /\ aborted' = aborted
  /\ abortControllerRef' = abortControllerRef
  /\ controllers' = controllers
  /\ turns' = turns
  /\ streamingChatRef' =
       [streamingChatRef EXCEPT !.visibleChatId = streamingChatRef'.visibleChatId]
  /\ abortedM' = abortedM
  /\ activeStreamsRef' = activeStreamsRef
  /\ generatingChats' = generatingChats
  /\ sessions' = sessions

\* the step changes nothing else that is neither the visible conversation
\* nor the displayed messages nor isLoading
RestKept ==
  /\ UNCHANGED << sessionIdRef, saveError, showOutOfCreditsModal, credits, db,
                  nChats, nTurns >>
  /\ UNCHANGED << mountedRef, pendingSaveChats, creditsM, modalM, dbM, nChatsM,
                  nSessions >>
  /\ \A c \in DOMAIN chatMessagesMap :
       c \in DOMAIN chatMessagesMap'
         /\ (chatMessagesMap'[c] # chatMessagesMap[c] => SelectChatLoadedM(c))

C11_FailedSaveKeepsMessage ==
  [][\A t \in Turns :
       (UpdateChatFailed(t) /\ OwnsRef(t)
          /\ turns[t].pc \in {"saveDone", "saveForced"}
          /\ HasFinalPlaceholder(turns[t].finalMessages, t))
         => /\ saveError'
            /\ \/ messages' = turns[t].finalMessages
               \/ /\ streamingChatRef'.chatId = turns[t].chatId
                  /\ streamingChatRef'.messages = turns[t].finalMessages]_vars

(***************************************************************************)
(* Properties of the quota check, in either engine                         *)
(***************************************************************************)
\* a step in which the quota check fails: credits < 2, or the deduction for
\* the prompt returned false
QuotaFailure ==
  \/ SendNoCredits
  \/ SendNoCreditsM
  \/ \E i \in Sessions : PromptCreditFailed(i)

\* C12: a failed quota check raises the out-of-credits modal and returns: no
\* request is issued, no message appended, no controller aborted or made and
\* no session registered.
C12_QuotaFailureFrame ==
  [][QuotaFailure
       => /\ showOutOfCreditsModal' \/ modalM'
          /\ UNCHANGED << messages, streamingChatRef, abortControllerRef,
                          aborted, controllers, turns, nTurns >>
          /\ UNCHANGED << chatMessagesMap, activeStreamsRef, generatingChats,
                          abortedM >>
          /\ \A i \in Sessions :
               sessions'[i] # sessions[i]
                 => /\ sessions'[i].pc = "end"
                    /\ sessions'[i].controller = 0]_vars

\* the deduction for the prompt returned false while another conversation's
\* session was registered
C12_Witness ==
  \E i \in Sessions :
    /\ sessions[i].outcome = "nocredit"
    /\ modalM
    /\ activeStreamsRef # << >>

(***************************************************************************)
(* Properties of isStreaming (single-stream engine)                        *)
(***************************************************************************)
\* the messages of the list ms that are marked as streaming
Streaming(ms) == {i \in DOMAIN ms : ms[i].isStreaming}

\* C13: the displayed list and the list of the streaming record each hold
\* at most one message with isStreaming = true.
C13_AtMostOneStreaming ==
  /\ Cardinality(Streaming(messages)) <= 1
  /\ Cardinality(Streaming(streamingChatRef.messages)) <= 1

(***************************************************************************)
(* Properties of the save effect (multi-stream engine)                     *)
(***************************************************************************)
\* C14: the save effect calls updateChat for a conversation at most once per
\* turn of it that asked for a save.
C14_OneSavePerTurn ==
  \A c \in Chats : updateChatCalls[c] <= finishedTurns[c]


(***************************************************************************)
(* Independence of the sessions of the multi-stream engine                 *)
(***************************************************************************)
\* a step of invocation i after its registration: a settled fetch, an event
\* of its stream, the end of its stream, its catch and its finally
SessionStep(i) ==
  \/ FetchOkM(i)
  \/ AbortedM(i)
  \/ FailedM(i)
  \/ \E e \in Events : ReadChunkM(i, e)
  \/ ReadDoneM(i)
  \/ \E paid \in BOOLEAN : DoneCreditM(i, paid)
  \/ DoneRefreshM(i)
  \/ ReadClosedM(i)

\* the slot of chat y in the map, the registry and the generating set is
\* what it was
SlotKept(y) ==
  /\ (y \in DOMAIN chatMessagesMap') = (y \in DOMAIN chatMessagesMap)
  /\ Get(chatMessagesMap', y) = Get(chatMessagesMap, y)
  /\ (y \in DOMAIN activeStreamsRef') = (y \in DOMAIN activeStreamsRef)
  /\ Get(activeStreamsRef', y) = Get(activeStreamsRef, y)
  /\ (y \in generatingChats') = (y \in generatingChats)

\* C15: every step of the session bound to conversation X leaves, for every
\* other conversation Y, the list chatMessagesMap[Y], the controller
\* activeStreamsRef[Y] and the membership of Y in generatingChats as they
\* were.
C15_SessionsIndependent ==
  [][\A i \in Sessions :
       SessionStep(i) => \A y \in Chats \ {sessions[i].chatId} : SlotKept(y)]_vars

\* two streams of two conversations have both delivered content, and both
\* are registered
C15_Witness ==
  /\ sessions[1].pc = "read" /\ sessions[2].pc = "read"
  /\ sessions[1].chatId # sessions[2].chatId
  /\ sessions[1].accumulatedContent # <<>>
  /\ sessions[2].accumulatedContent # <<>>
  /\ DOMAIN activeStreamsRef = {sessions[1].chatId, sessions[2].chatId}
  /\ generatingChats = {sessions[1].chatId, sessions[2].chatId}


(***************************************************************************)
(* Unmounting the view of the multi-stream engine                          *)
(***************************************************************************)
\* C16: once the view is unmounted, every invocation that has a request or a
\* stream open has had its controller aborted, and no invocation has called
\* a setter of chatMessagesMap or generatingChats since.
C16_UnmountStopsSessions ==
  ~mountedRef =>
    \A i \in Sessions :
      /\ sessions[i].pc \in {"fetch", "read"} => sessions[i].controller \in abortedM
      /\ ~sessions[i].setAfterUnmount


(***************************************************************************)
(* The deduction for the reply                                             *)
(***************************************************************************)
\* C17: every turn that opened a stream and ended on a done event, on a
\* stream closed without one or on an error has called useCredits(1) for
\* the reply.
C17_PostTurnDeduction ==
  \A i \in Sessions :
    (/\ sessions[i].pc = "end"
     /\ sessions[i].openedStream
     /\ sessions[i].outcome \in {"done", "closed", "error"})
       => sessions[i].postTurnCredit


(***************************************************************************)
(* What a turn of the single-stream engine passes to updateChat            *)
(***************************************************************************)
\* the list holds a message with this id
Holds(ms, id) == \E j \in DOMAIN ms : ms[j].id = id

\* C18: the list a turn passes to updateChat, after a done event or after a
\* stream closed without one, is not empty and holds the turn's own user
\* message and the turn's own assistant placeholder.
C18_SavesOwnList ==
  \A t \in Turns :
    turns[t].pc \in {"saveDone", "saveForced"}
      => /\ turns[t].finalMessages # <<>>
         /\ Holds(turns[t].finalMessages, AssistantMessageId(t))
         /\ Holds(turns[t].finalMessages, UserMessageId(t))


(***************************************************************************)
(* The single-stream engine at rest                                        *)
(***************************************************************************)
\* C19: when every invocation of handleSendMessage has returned, no message
\* of the displayed list and no message of the list handleSelectChat
\* restores from streamingChatRef has isStreaming = true.
C19_NoStreamingAtRest ==
  (\A t \in Turns : turns[t].pc \in {"idle", "end"})
    => /\ Streaming(messages) = {}
       /\ Streaming(streamingChatRef.messages) = {}


(***************************************************************************)
(* The search history of a turn                                            *)
(***************************************************************************)
\* C20: a search event whose (iteration, queryIndex) key is already in the
\* turn's search history replaces the query, the sources and the status of
\* that entry and nothing else in the history, and the entry keeps the text
\* preview it had when the event carries none.
C20_UpsertKeepsPreview ==
  [][\A t \in Turns, e \in SearchEvents :
       (e.type = "search" /\ ReadChunk(t, e, 3, MaxSearches))
         => LET h == turns[t].currentSearchHistory
                g == turns'[t].currentSearchHistory
                j == FindIndex(h, e.iteration, e.queryIndex)
            IN j > 0 =>
                 /\ Len(g) = Len(h)
                 /\ \A k \in DOMAIN h : k # j => g[k] = h[k]
                 /\ g[j].query = e.data
                 /\ g[j].sources = e.sources
                 /\ g[j].status = e.status
                 /\ e.textPreview = "" => g[j].textPreview = h[j].textPreview
                 /\ e.textPreview # "" => g[j].textPreview = e.textPreview
                 /\ streamingChatRef'.searchHistory = g]_vars

\* a query stored with a text preview was completed by an event without one
C20_Witness ==
  \E t \in Turns :
    \E j \in DOMAIN turns[t].currentSearchHistory :
      /\ turns[t].currentSearchHistory[j].query = "refined"
      /\ turns[t].currentSearchHistory[j].status = "complete"
      /\ turns[t].currentSearchHistory[j].textPreview = "p"


\* the (iteration, queryIndex) keys of a search history, in its order
Keys(history) ==
  [j \in DOMAIN history |-> << history[j].iteration, history[j].queryIndex >>]

NoDuplicateKey(history) ==
  \A j, k \in DOMAIN history : Keys(history)[j] = Keys(history)[k] => j = k

IsPrefix(a, b) == Len(a) <= Len(b) /\ SubSeq(b, 1, Len(a)) = a

\* C21: in both engines the search history a turn accumulates, and the
\* searchHistory of every message that is streaming, never holds two
\* entries with the same (iteration, queryIndex), and while the turn reads
\* its stream the keys already stored keep their places: new keys are
\* appended after them.
C21_NoDuplicateSearch ==
  [][/\ \A t \in Turns :
          /\ NoDuplicateKey(turns'[t].currentSearchHistory)
          /\ (turns[t].pc = "read" /\ turns'[t].pc = "read")
               => IsPrefix(Keys(turns[t].currentSearchHistory),
                           Keys(turns'[t].currentSearchHistory))
     /\ \A i \in Sessions :
          /\ NoDuplicateKey(sessions'[i].currentSearchHistory)
          /\ (sessions[i].pc = "read" /\ sessions'[i].pc = "read")
               => IsPrefix(Keys(sessions[i].currentSearchHistory),
                           Keys(sessions'[i].currentSearchHistory))
     /\ \A j \in Streaming(streamingChatRef'.messages) :
          NoDuplicateKey(streamingChatRef'.messages[j].searchHistory)
     /\ \A c \in DOMAIN chatMessagesMap' :
          \A j \in Streaming(chatMessagesMap'[c]) :
            NoDuplicateKey(chatMessagesMap'[c][j].searchHistory)]_vars

\* the single-stream engine has stored two keys after three search events
C21_Witness ==
  \E t \in Turns : /\ Len(turns[t].currentSearchHistory) = 2
                   /\ turns[t].emitted = 3
                   /\ turns[t].currentSearchHistory[1].status = "complete"


(***************************************************************************)
(* Lines that do not parse                                                 *)
(***************************************************************************)
\* the lines of the chunk that start with the marker
DataLines(chunk) ==
  { j \in DOMAIN Split(chunk) : StartsWithData(Split(chunk)[j]) }

\* the chunk holds a data line, and the payload of none of its data lines
\* is valid JSON
OnlyMalformed(chunk) ==
  /\ DataLines(chunk) # {}
  /\ \A j \in DataLines(chunk) : ~ParseOk(Split(chunk)[j])

\* C22: a chunk whose data lines all carry a payload that is not valid JSON
\* changes no message, no status, no content, no search history and not the
\* session id, and the turn goes on reading: what it has accumulated is
\* what the next events are applied to.
C22_MalformedLineSkipped ==
  [][\A t \in Turns, e \in StreamEvents, k \in 1 .. 3 :
       (/\ ReadChunk(t, e, k, MaxLines)
        /\ OnlyMalformed(turns[t].wire \o SubSeq(Encode(e), 1, k)))
         => /\ UNCHANGED << messages, streamingChatRef, sessionIdRef >>
            /\ turns'[t].pc = "read"
            /\ turns'[t].accumulatedContent = turns[t].accumulatedContent
            /\ turns'[t].currentSearchHistory = turns[t].currentSearchHistory
            /\ turns'[t].receivedDone = turns[t].receivedDone
            /\ turns'[t].afterError = turns[t].afterError
            /\ turns'[t].show = turns[t].show]_vars

\* a content event was applied in a stream of two lines of which the other
\* changed nothing
C22_Witness ==
  \E t \in Turns :
    /\ turns[t].pc = "read" /\ turns[t].emitted = 2 /\ turns[t].wire = <<>>
    /\ turns[t].accumulatedContent = <<"a">>
    /\ turns[t].sent = <<"a">>
    /\ turns[t].currentSearchHistory = <<>>
    /\ sessionIdRef = ""


(***************************************************************************)
(* The content of a forced finalization                                    *)
(***************************************************************************)
\* what the forced finalization of invocation t is to leave as content
ForcedContent(t) ==
  IF turns[t].accumulatedContent # <<>> THEN turns[t].accumulatedContent
  ELSE IF turns[t].currentSearchHistory # <<>> THEN INTERRUPTED
  ELSE <<>>

\* C23: the list a turn finalizes after its stream closed without done
\* holds the turn's assistant message with the accumulated text as content
\* if there is any, else the interruption note if searches were accumulated,
\* else the content the placeholder had; every entry of its search history
\* has status complete.
C23_ForcedContent ==
  \A t \in Turns :
    turns[t].pc = "saveForced"
      => \E j \in DOMAIN turns[t].finalMessages :
           LET m == turns[t].finalMessages[j]
           IN /\ m.id = AssistantMessageId(t)
              /\ m.content = ForcedContent(t)
              /\ \A k \in DOMAIN m.searchHistory :
                   m.searchHistory[k].status = "complete"


(***************************************************************************)
(* What a status event and a content event change                          *)
(***************************************************************************)
\* reader.read() resolved with exactly the line of event e
ReadsLine(t, e) == turns[t].wire = <<>> /\ ReadChunk(t, e, 3, MaxLines)

\* the messages of streamingChatRef before and after the step, one by one
SameButPlaceholder(t) ==
  /\ Len(streamingChatRef'.messages) = Len(streamingChatRef.messages)
  /\ \A j \in DOMAIN streamingChatRef.messages :
       streamingChatRef.messages[j].id # AssistantMessageId(t)
         => streamingChatRef'.messages[j] = streamingChatRef.messages[j]

\* C24: a status event changes nothing of the assistant placeholder but its
\* currentStatus, which it sets; a content event appends its delta to the
\* placeholder's content, sets its currentStatus to null and changes
\* nothing else of it; a search, session or malformed line leaves the
\* currentStatus as it is, so the status stays null after content until
\* the next status event.  No other message changes.
C24_StatusAndContentFrame ==
  [][\A t \in Turns, e \in StreamEvents :
       ReadsLine(t, e) =>
         \A j \in DOMAIN streamingChatRef.messages :
           LET m == streamingChatRef.messages[j]
               n == streamingChatRef'.messages[j]
           IN (m.id = AssistantMessageId(t)) =>
                /\ e.type = "status" =>
                      /\ SameButPlaceholder(t)
                      /\ n.currentStatus = [set |-> TRUE, canSkip |-> e.canSkip]
                      /\ n = [m EXCEPT !.currentStatus = n.currentStatus]
                /\ e.type = "content" =>
                      /\ SameButPlaceholder(t)
                      /\ n = [m EXCEPT !.content = m.content \o << e.data >>,
                                       !.currentStatus = NoStatus]
                /\ e.type \in {"search", "session", "bad"} =>
                      /\ SameButPlaceholder(t)
                      /\ n.currentStatus = m.currentStatus
                      /\ n.content = m.content]_vars

\* content has arrived in a stream of two lines: the placeholder shows the
\* text and no status
C24_Witness ==
  \E t \in Turns :
    /\ turns[t].pc = "read" /\ turns[t].emitted = 2 /\ turns[t].wire = <<>>
    /\ \E j \in DOMAIN streamingChatRef.messages :
         /\ streamingChatRef.messages[j].id = AssistantMessageId(t)
         /\ streamingChatRef.messages[j].content = <<"a">>
         /\ streamingChatRef.messages[j].currentStatus = NoStatus
         /\ streamingChatRef.messages[j].isStreaming


(***************************************************************************)
(* Selecting a conversation that is being generated                        *)
(***************************************************************************)
\* invocation t has a request or a stream open for conversation c, and its
\* signal is not aborted
ActiveIn(t, c) ==
  /\ turns[t].chatId = c
  /\ turns[t].pc \in {"fetch", "read"}
  /\ turns[t].signal \notin aborted

ActiveInM(i, c) ==
  /\ sessions[i].chatId = c
  /\ sessions[i].pc \in {"fetch", "read", "doneCredit", "doneRefresh"}
  /\ sessions[i].controller \notin abortedM

\* C25: selecting a conversation that has an active session shows that
\* session's list from memory and starts no getChat; selecting a
\* conversation that has no list in memory and no active session starts a
\* getChat.
C25_SelectPrefersMemory ==
  [][\A c \in Chats :
       /\ handleSelectChat(c) =>
            /\ \A t \in Turns : ActiveIn(t, c) =>
                  /\ pendingLoads' = pendingLoads
                  /\ currentChatId' = c
                  /\ messages' = turns[t].show
            /\ ((\A t \in Turns : ~ActiveIn(t, c)) /\ streamingChatRef.chatId # c)
                  => c \in pendingLoads'
       /\ handleSelectChatM(c) =>
            /\ \A i \in Sessions : ActiveInM(i, c) =>
                  /\ pendingLoadsM' = pendingLoadsM
                  /\ currentChatIdM' = c
                  /\ AssistantMessageId(i) \in
                       { chatMessagesMap[c][j].id : j \in DOMAIN chatMessagesMap[c] }
            /\ ((\A i \in Sessions : ~ActiveInM(i, c)) /\ c \notin DOMAIN chatMessagesMap)
                  => c \in pendingLoadsM']_vars


(***************************************************************************)
(* The skip-search request                                                 *)
(***************************************************************************)
\* C26: when a skip-search request is sent, some invocation has its stream
\* open, its placeholder is displayed with a status that allows skipping,
\* and the request carries the session id that invocation's stream
\* announced.
C26_SkipCarriesOwnSession ==
  [][handleSkipSearch =>
       \E t \in Turns :
         /\ turns[t].pc = "read"
         /\ sessionIdRef = SessionOf(t)
         /\ \E j \in DOMAIN messages :
              /\ messages[j].id = AssistantMessageId(t)
              /\ ShowsSkipButton(messages[j])]_vars

(***************************************************************************)
(* The displayed conversation and the reference's visibleChatId            *)
(***************************************************************************)
\* invocation t reads its stream into the conversation the reference holds
StreamsInto(t, c) ==
  /\ turns[t].pc = "read"
  /\ turns[t].chatId = c
  /\ streamingChatRef.chatId = c

\* C27: whenever an invocation is streaming into a conversation and
\* currentChatId is that conversation, streamingChatRef.visibleChatId is
\* that conversation too.
C27_VisibleIsCurrent ==
  \A t \in Turns :
    StreamsInto(t, currentChatId) => streamingChatRef.visibleChatId = currentChatId

(***************************************************************************)
(* Concurrent deductions                                                   *)
(***************************************************************************)
\* C28: when two useCredits calls of one user have both returned true and no
\* other call has written, the stored balance is the balance before minus
\* the sum of their amounts, and it is not negative.
C28_NoLostDeduction ==
  \A i, j \in Calls :
    ( /\ i < j
      /\ useCreditsCalls[i].pc = "returned" /\ useCreditsCalls[i].returned
      /\ useCreditsCalls[j].pc = "returned" /\ useCreditsCalls[j].returned
      /\ \A k \in Calls \ {i, j} : ~useCreditsCalls[k].returned
                                     /\ useCreditsCalls[k].pc # "setDoc" )
    => /\ userDoc = creditsBefore - (useCreditsCalls[i].amount + useCreditsCalls[j].amount)
       /\ userDoc >= 0

(***************************************************************************)
(* Deleting a conversation that is generating                              *)
(***************************************************************************)
\* session i was aborted and its conversation has been deleted
AbortedByDelete(i) ==
  /\ sessions[i].chatId \in deletedChats
  /\ sessions[i].controller \in abortedM

\* C29: a step of an aborted session whose conversation has been deleted
\* does not put the conversation back into activeStreamsRef, generatingChats,
\* chatMessagesMap or pendingSaveChats, and calls no updateChat for it.
C29_DeletedStaysAbsent ==
  [][\A i \in Sessions :
       (AbortedByDelete(i) /\ sessions'[i] # sessions[i])
       => LET X == sessions[i].chatId
          IN /\ X \in DOMAIN activeStreamsRef' => X \in DOMAIN activeStreamsRef
             /\ X \in generatingChats' => X \in generatingChats
             /\ X \in DOMAIN chatMessagesMap' => X \in DOMAIN chatMessagesMap
             /\ X \in pendingSaveChats' => X \in pendingSaveChats
             /\ updateChatCalls'[X] = updateChatCalls[X]]_vars

(***************************************************************************)
(* Every session ends                                                      *)
(***************************************************************************)
\* session i is registered and has not reached its finally
Registered(i) == sessions[i].pc \in {"fetch", "read", "doneCredit", "doneRefresh"}

\* The multi-stream engine in a mounted view where every awaited call of a
\* registered session (fetch, reader.read, useCredits, refreshCredits)
\* settles: a step of the session that stays possible is taken.
SpecMultiFair ==
  Init /\ [][NextMulti]_vars /\ \A i \in Sessions : WF_vars(SessionStep(i))

\* C30: every registered session reaches its finally, and its conversation
\* is then in neither activeStreamsRef nor generatingChats.
C30_SessionsEnd ==
  \A i \in Sessions :
    Registered(i) ~>
      /\ sessions[i].pc = "end"
      /\ sessions[i].chatId \notin DOMAIN activeStreamsRef
      /\ sessions[i].chatId \notin generatingChats

\* a session read its done event, its stream closed, and its conversation
\* is no longer registered or generating
C30_Witness ==
  \E i \in Sessions :
    /\ sessions[i].pc = "end"
    /\ sessions[i].outcome = "done"
    /\ sessions[i].chatId \notin DOMAIN activeStreamsRef
    /\ sessions[i].chatId \notin generatingChats

=============================================================================
